---------------------------- MODULE Spec2Model ----------------------------
(***************************************************************************)
(* A model of the skyhook agent (skyhook_agent/controller.py and its       *)
(* privilege-boundary helper chroot_exec.py).                              *)
(*                                                                         *)
(* Spec          : agent invocations in the step modes (main -> agent_main *)
(*                 -> run_step), one invocation at a time on one node,     *)
(*                 with the flag store and the history ledger persisting   *)
(*                 between invocations.                                    *)
(* SpecInterrupt : invocations in interrupt mode (main -> do_interrupt).   *)
(* SpecSummarize : summarize_check_results called with any result list.    *)
(* SpecLogs      : the log directory under run_step and cleanup_old_logs.  *)
(* SpecFlagPath  : make_flag_path, character by character.                 *)
(* SpecEnv       : chroot_exec._get_process_env.                           *)
(* SpecTee       : one run of a step's process under tee: the child, the   *)
(*                 two copy tasks and the wait task, interleaved.          *)
(* SpecLive      : Spec with the agent taking its next step and every      *)
(*                 step process ending.                                    *)
(* SpecSeeded    : Spec on a node that already holds flags of an earlier   *)
(*                 installation.                                           *)
(* SpecRetry     : an interrupt delivered again until it has completed.    *)
(***************************************************************************)
EXTENDS Integers, Sequences, FiniteSets, TLC

VARIABLES
    \* ---- state that outlives an invocation (files on the host) ----
    config,            \* config_data["modes"]: Mode -> list of steps
    flags,             \* the step flag files that exist (their paths)
    startFlag,         \* the flags/START file exists
    histFile,          \* history/<package>.json
    backupFile,        \* history/<package>.json.backup exists
    markers,           \* modes whose <mode>_ALL_CHECKED file exists
    checkResults,      \* contents of flags/check_results
    \* ---- one invocation of main/agent_main ----
    pc,                \* "idle", "loop", "running", "done"
    mode,              \* the mode argument of main
    version,           \* config_data["package_version"]
    always_run_step,   \* the OVERLAY_ALWAYS_RUN_STEP argument
    idx,               \* position of the for loop in the step list (1-based)
    results,           \* the results list of agent_main
    received_sigterm,  \* the global set by sigterm_handler
    curStep,           \* what the running step process was started with
    ret,               \* the value main returned
    \* ---- history variables (observations, not program state) ----
    invocations,       \* number of invocations started
    called,            \* indices of the steps handed to run_step, in order
    ran,               \* indices of the steps whose process was started, in order
    written,           \* indices of the steps whose flag this invocation wrote
    failedAt,          \* index at which run_step reported failure in a non-check mode
    cleanStart,        \* no step flag existed when this invocation started
    prev,              \* summary of the previous, completed invocation
    earned,            \* flag paths whose step run_step reported successful
    lastRun,           \* the last run_step call: inputs and result
    histBefore,        \* the history file as it was when this invocation started
    wroteMarker,       \* this invocation wrote its <mode>_ALL_CHECKED file
    exited,            \* indices of the steps whose process has exited, in order
    \* ---- one invocation of do_interrupt ----
    intFlags,          \* interrupt completion flags that exist
    ipc,               \* "idle", "loop", "running", "done"
    interrupt,         \* the inflated interrupt: [type, services]
    resource_id,       \* SKYHOOK_RESOURCE_ID
    icmd,              \* index of the for loop in interrupt_cmd (0-based)
    iret,              \* the value do_interrupt returned
    \* ---- history variables of the interrupt subsystem ----
    iinvocations,      \* number of interrupt invocations started
    iran,              \* command indices executed by this invocation, in order
    iallPresent,       \* every command's flag existed when this invocation started
    ilast,             \* the last command that exited: [i, rc] (i = -1: none)
    execCount,         \* per flag: number of executions of its command
    okCount,           \* per flag: number of executions that were not rolled back
    \* ---- the log directory (run_step, cleanup_old_logs) ----
    logs,              \* the log files that exist: [root, version, path, stamp, mtime]
    logDirs,           \* the directories that exist: <<root, version>>
    clock,             \* the time, in seconds
    lastCleanup,       \* the last cleanup_old_logs call: its pattern and the files before
    lastLogRun,        \* the step whose process the last run_step call executed
    \* ---- calls of functions without state ----
    call,              \* the function called and its arguments
    result,            \* what the call returned
    \* ---- one run of a step's process (tee) ----
    proc,              \* the child process p: [exited, returncode]
    streams,           \* per pipe of the child: what was written, read and copied
    waitTask,          \* the p.wait() task of the gather
    teeState           \* tee and its caller: [pc, returncode, accept, failed]

stepVars == <<config, flags, startFlag, histFile, backupFile, markers, checkResults,
              pc, mode, version, always_run_step, idx, results,
              received_sigterm, curStep, ret,
              invocations, called, ran, written, failedAt, cleanStart, prev, earned, lastRun,
              histBefore, wroteMarker, exited>>

intVars == <<intFlags, ipc, interrupt, resource_id, icmd, iret,
             iinvocations, iran, iallPresent, ilast, execCount, okCount>>

logVars == <<logs, logDirs, clock, lastCleanup, lastLogRun>>

pureVars == <<call, result>>

teeVars == <<proc, streams, waitTask, teeState>>

auxVars == <<logVars, pureVars, teeVars>>

vars == <<stepVars, intVars, auxVars>>

-----------------------------------------------------------------------------
(* Bounds *)

MaxInvocations == 2
MaxInterrupts == 2

-----------------------------------------------------------------------------
(* step.py: modes and steps *)

Mode == {"uninstall", "uninstall-check", "upgrade", "upgrade-check", "apply",
         "apply-check", "config", "config-check", "interrupt", "post-interrupt",
         "post-interrupt-check"}

NON_STEP_MODES == {"interrupt"}

StepModes == Mode \ NON_STEP_MODES

\* The keys of CHECK_TO_APPLY; these are also exactly the modes whose string
\* value ends with "-check" (controller.py line 578).
CHECK_TO_APPLY == {"uninstall-check", "upgrade-check", "apply-check",
                   "config-check", "post-interrupt-check"}

\* The modes that update the version history (controller.py line 601).
HistoryModes == {"apply-check", "upgrade-check", "uninstall-check"}

\* The modes in which check_flag_file never skips (controller.py line 320).
NoIdempotenceModes == {"config", "uninstall", "upgrade"}

Auto == "auto"
Disabled == "disabled"

\* An argument is a literal or an "env:NAME" placeholder.
Lit(t) == [env |-> FALSE, text |-> t]
EnvArg(n) == [env |-> TRUE, text |-> n]

Step(path, arguments, returncodes, idempotence) ==
    [path |-> path, arguments |-> arguments, returncodes |-> returncodes,
     idempotence |-> idempotence, upgrade |-> FALSE]

UpgradeStep(path, returncodes, idempotence) ==
    [path |-> path, arguments |-> <<>>, returncodes |-> returncodes,
     idempotence |-> idempotence, upgrade |-> TRUE]

RangeOf(s) == {s[i] : i \in DOMAIN s}


-----------------------------------------------------------------------------
(* The inputs of the model: packages (typed step lists), versions, environment *)

PackageName == "pkg"

Versions == {"1.0.0", "2.0.0"}

EnvNames == {"FOO", "BAR"}

\* os.environ[name] for the names that are defined
EnvValue == [n \in EnvNames |-> IF n = "FOO" THEN "foo_value" ELSE "bar_value"]

\* step_data.get(mode, []) is [] for a mode the package does not configure
Package(f) == [m \in StepModes |-> IF m \in DOMAIN f THEN f[m] ELSE <<>>]

\* A package with apply, config, uninstall and upgrade steps (the upgrade list
\* holds an UpgradeStep and a plain Step).  The apply list
\* holds steps that differ only in arguments or in accepted return codes, a
\* step with idempotence disabled and a step that accepts a non-zero code; the
\* uninstall step has the path, arguments and return codes of the first apply
\* step.
PackageFull ==
    Package(
        ("apply" :> << Step("a", <<>>, <<0>>, Auto),
                       Step("a", <<Lit("x")>>, <<0, 2>>, Auto),
                       Step("b", <<>>, <<0>>, Disabled) >>)
     @@ ("apply-check" :> << Step("a_check", <<>>, <<0>>, Auto),
                             Step("b_check", <<>>, <<1>>, Auto) >>)
     @@ ("config" :> << Step("c", <<EnvArg("FOO"), EnvArg("BAR")>>, <<0>>, Auto) >>)
     @@ ("config-check" :> << Step("c_check", <<EnvArg("FOO")>>, <<0>>, Auto) >>)
     @@ ("uninstall" :> << Step("a", <<>>, <<0>>, Auto) >>)
     @@ ("uninstall-check" :> << Step("a_check", <<>>, <<0>>, Auto) >>)
     @@ ("upgrade" :> << UpgradeStep("u", <<0>>, Auto),
                         Step("s", <<Lit("x")>>, <<0>>, Auto) >>)
     @@ ("upgrade-check" :> << UpgradeStep("u_check", <<0>>, Auto) >>))

\* A package that configures no apply, upgrade or uninstall steps (their
\* check modes have an empty list) and whose post-interrupt list repeats a step.
PackageSmall ==
    Package(
        ("config" :> << Step("c", <<>>, <<0>>, Disabled) >>)
     @@ ("config-check" :> << Step("c_check", <<>>, <<0>>, Auto) >>)
     @@ ("post-interrupt" :> << Step("p", <<>>, <<0>>, Auto),
                                Step("p", <<>>, <<0>>, Auto) >>)
     @@ ("post-interrupt-check" :> << Step("p_check", <<>>, <<0, 1>>, Auto) >>))

Packages == {PackageFull, PackageSmall}

\* Exit codes of a step's (or an interrupt command's) own process; a negative
\* code is death by that signal.
SIGTERM == 15
ChildCodes == {0, 1, 2, -SIGTERM}

\* How one execution through tee ends: the command's process ends with `child`
\* and the helper relays it, or (a shutdown of the node) the command and the
\* helper process are both killed by SIGTERM.
Outcomes == [child : ChildCodes, killed : {FALSE}] \cup
            {[child |-> -SIGTERM, killed |-> TRUE]}

-----------------------------------------------------------------------------
(* chroot_exec.py and tee: the exit status the agent sees *)

\* chroot_exec runs the command with subprocess.run(cmds, check=True): a
\* non-zero status raises CalledProcessError, which is re-raised, and the
\* helper (a python process) ends with status 1.
chroot_exec(child) == IF child = 0 THEN 0 ELSE 1

\* tee returns p.returncode of the helper process: the helper's own exit
\* status, or -15 when the helper was terminated by SIGTERM.
tee(o) == IF o.killed THEN -SIGTERM ELSE chroot_exec(o.child)

\* _run returns result.returncode
_run(o) == tee(o)

-----------------------------------------------------------------------------
(* Flag store *)

config_data == [package_name |-> PackageName, package_version |-> version]

\* base64 of f"{step.arguments}_{step.returncodes}": an injective encoding of
\* the pair (argument list, return code list)
marker(step) == <<step.arguments, step.returncodes>>

\* what of a step enters its flag path
StepKey(step) == <<step.path, step.arguments, step.returncodes>>

\* Faulty variant: the mode is part of the flag path
make_flag_path_mode(step, cd) ==
    <<cd.package_name, cd.package_version, step.path, marker(step), mode>>

make_flag_path(step, cd) ==
    <<cd.package_name, cd.package_version, step.path, marker(step)>>

set_flag(flag_file, flagset) == flagset \cup {flag_file}

\* Faulty variant: the idempotence test inverted (an Auto step is never skipped)
check_flag_file_inverted(step, flag_file, always, m) ==
    IF flag_file \in flags
    THEN IF always THEN FALSE
         ELSE IF m \in NoIdempotenceModes THEN FALSE
         ELSE IF step.idempotence = Auto THEN FALSE
         ELSE TRUE
    ELSE FALSE

\* Faulty variant: config is not among the modes without idempotence
check_flag_file_config(step, flag_file, always, m) ==
    IF flag_file \in flags
    THEN IF always THEN FALSE
         ELSE IF m \in {"uninstall", "upgrade"} THEN FALSE
         ELSE IF step.idempotence = Disabled THEN FALSE
         ELSE TRUE
    ELSE FALSE

check_flag_file(step, flag_file, always, m) ==
    IF flag_file \in flags
    THEN IF always THEN FALSE
         ELSE IF m \in NoIdempotenceModes THEN FALSE
         ELSE IF step.idempotence = Disabled THEN FALSE
         ELSE TRUE
    ELSE FALSE

AllSteps(step_data) == UNION {RangeOf(step_data[m]) : m \in DOMAIN step_data}

\* Faulty variant: no flag file is removed
remove_flags_none(step_data, cd, flagset) == flagset

\* Faulty variant: every flag file is removed
remove_flags_all(step_data, cd, flagset) == {}

remove_flags(step_data, cd, flagset) ==
    flagset \ {make_flag_path(s, cd) : s \in AllSteps(step_data)}

-----------------------------------------------------------------------------
(* History ledger: get_or_update_history *)

Absent == [state |-> "absent", current |-> "", history |-> <<>>]
Corrupt == [state |-> "corrupt", current |-> "", history |-> <<>>]

\* history_data after the load: the file's record, the initial record when
\* the file does not parse, "unknown" when there is no file
history_data(h) ==
    IF h.state = "ok" THEN [current |-> h.current, history |-> h.history]
    ELSE IF h.state = "corrupt" THEN [current |-> "", history |-> <<>>]
    ELSE [current |-> "unknown", history |-> <<>>]

\* the history file after the load: a file that does not parse is renamed
HistoryFileAfterLoad(h) == IF h.state = "corrupt" THEN Absent ELSE h

BackupAfterLoad(h, b) == b \/ h.state = "corrupt"

\* Faulty variant: the new entry is put at the end of the list
HistoryWrite_append(h, m, v, now) ==
    LET d == history_data(h)
        ver == IF m = "uninstall-check" THEN "uninstalled" ELSE v
    IN [state |-> "ok", current |-> ver,
        history |-> d.history \o <<[version |-> ver, time |-> now]>>]

\* write=True: prepend an entry and save
HistoryWrite(h, m, v, now) ==
    LET d == history_data(h)
        ver == IF m = "uninstall-check" THEN "uninstalled" ELSE v
    IN [state |-> "ok", current |-> ver,
        history |-> <<[version |-> ver, time |-> now]>> \o d.history]

\* write=False: the versions given to the step
NoVersions == [PREVIOUS_VERSION |-> "", CURRENT_VERSION |-> ""]

HistoryReadEnv(h, v) ==
    [PREVIOUS_VERSION |-> history_data(h).current, CURRENT_VERSION |-> v]

\* Faulty variant: the two versions are appended in the other order
HistoryReadArgs_swapped(step, h, v) ==
    IF step.upgrade
    THEN step.arguments \o <<Lit(v), Lit(history_data(h).current)>>
    ELSE step.arguments

HistoryReadArgs(step, h, v) ==
    IF step.upgrade
    THEN step.arguments \o <<Lit(history_data(h).current), Lit(v)>>
    ELSE step.arguments

-----------------------------------------------------------------------------
(* run_step *)

\* Faulty variant: only the first missing name is collected
MissingEnv_first(arguments, env) ==
    LET missing == SelectSeq(arguments, LAMBDA a : a.env /\ a.text \notin env)
    IN [i \in DOMAIN missing \cap {1} |-> missing[i].text]

\* The names of the env: arguments that os.environ lacks, in argument order
MissingEnv(arguments, env) ==
    LET missing == SelectSeq(arguments, LAMBDA a : a.env /\ a.text \notin env)
    IN [i \in DOMAIN missing |-> missing[i].text]

ResolveArgs(arguments, env) ==
    [i \in DOMAIN arguments |->
        IF arguments[i].env /\ arguments[i].text \in env
        THEN Lit(EnvValue[arguments[i].text])
        ELSE arguments[i]]

\* The names the env: arguments refer to; of os.environ only these matter
EnvRefs(arguments) == {arguments[i].text : i \in {j \in DOMAIN arguments : arguments[j].env}}

\* return_code not in step.returncodes
StepFailed(return_code, step) == return_code \notin RangeOf(step.returncodes)

-----------------------------------------------------------------------------
(* summarize_check_results *)

NoResults == [mode |-> "", table |-> <<>>]

AnyFailed(rs) == \E i \in DOMAIN rs : rs[i]

\* Faulty variant: the number of results is not compared with the number of steps
summarize_failure_nolen(rs, steps) == AnyFailed(rs)

summarize_failure(rs, steps) ==
    IF Len(rs) # Len(steps) THEN TRUE ELSE AnyFailed(rs)

\* Faulty variant: the table is written before the lengths are compared
summarize_check_file_always(rs, steps, m, old) ==
    [mode |-> m,
     table |-> [i \in DOMAIN steps \cap DOMAIN rs |-> <<steps[i].path, rs[i]>>]]

summarize_check_file(rs, steps, m, old) ==
    IF Len(rs) # Len(steps) THEN old
    ELSE [mode |-> m, table |-> [i \in DOMAIN steps |-> <<steps[i].path, rs[i]>>]]

\* Faulty variant: the marker is written although a check failed
summarize_marker_anyresult(rs, steps) == Len(rs) = Len(steps)

summarize_marker(rs, steps) == Len(rs) = Len(steps) /\ ~AnyFailed(rs)


-----------------------------------------------------------------------------
(* agent_main: the decisions of the step loop *)

\* a mode string this agent does not know (the mode of a newer operator)
UnknownModes == {"bogus"}

\* Faulty variant: main does not test the mode string
Supported_all(m) == TRUE

\* mode in set(map(str, Mode))
Supported(m) == m \in Mode

\* Faulty variant: post-interrupt-check is taken for a non-check mode
IsCheckMode_nopost(m) == m \in CHECK_TO_APPLY \ {"post-interrupt-check"}

\* str(mode).endswith("-check")
IsCheckMode(m) == m \in CHECK_TO_APPLY

\* the step list of the mode of this invocation
Steps == IF mode \in StepModes THEN config[mode] ELSE <<>>

IsUpgradeMode(m) == m \in {"upgrade", "upgrade-check"}

\* Faulty variant: a failed step does not end the invocation
AbortsOnFailure_never(m, failed) == FALSE

\* Faulty variant: a failed step ends the invocation in a check mode too
AbortsOnFailure_always(m, failed) == failed

\* a failed step ends the invocation in a non-check mode
AbortsOnFailure(m, failed) == ~IsCheckMode(m) /\ failed

\* Faulty variant: no flag is set after a step
FlagsAfterStep_never(failed, flag_file, flagset) == flagset

\* Faulty variant: the flag is set whatever run_step returned
FlagsAfterStep_always(failed, flag_file, flagset) == set_flag(flag_file, flagset)

\* the flag store after run_step returned, in a non-check mode
FlagsAfterStep(failed, flag_file, flagset) ==
    IF failed THEN flagset ELSE set_flag(flag_file, flagset)

\* Faulty variant: no history entry when the mode has no steps
UpdatesHistory_nonempty(m) == m \in HistoryModes /\ Len(config[m]) > 0

\* Faulty variant: every check mode updates the version history
UpdatesHistory_anycheck(m) == m \in CHECK_TO_APPLY

\* Faulty variant: the loop does not look at received_sigterm
ObservesSigterm_never(flag) == FALSE

\* the test at the top of the loop body
ObservesSigterm(flag) == flag

\* Faulty variant: the invocation that SIGTERM stops returns False
sigterm_return_graceful == FALSE

\* what agent_main returns when it stops because of SIGTERM
sigterm_return == TRUE

\* the mode updates the version history when it ends successfully
UpdatesHistory(m) == m \in HistoryModes

\* the mode removes the step flags when it ends successfully
PurgesFlags(m) == m = "uninstall-check"

\* Faulty variant: no summary once a termination signal has arrived
Summarizes_nosigterm(m, steps) ==
    m \in CHECK_TO_APPLY /\ Len(steps) > 0 /\ ~received_sigterm

\* Faulty variant: the results of an empty step list are summarized too
Summarizes_empty(m, steps) == m \in CHECK_TO_APPLY

\* the check results are summarized after the loop
Summarizes(m, steps) == m \in CHECK_TO_APPLY /\ Len(steps) > 0

-----------------------------------------------------------------------------
(* Initial state *)

NoStep == [path |-> "", args |-> <<>>, env |-> NoVersions, environ |-> {}]

NoRun == [idx |-> 0, environ |-> {}, missing |-> <<>>, started |-> FALSE, child |-> 0,
          killed |-> FALSE, return_code |-> 0, failed |-> FALSE]

NoPrev == [apply_ok |-> FALSE, version |-> "", called |-> <<>>,
           failedAt |-> 0, flagged |-> FALSE, always |-> FALSE,
           uninstalled |-> FALSE, hadFlags |-> FALSE, mode |-> "", succeeded |-> {}]

NoInterrupt == [type |-> "", services |-> 0]

NoCmd == [i |-> -1, return_code |-> 0]

InitStep ==
    /\ flags = {}
    /\ startFlag = FALSE
    /\ backupFile = FALSE
    /\ markers = {}
    /\ checkResults = NoResults
    /\ pc = "idle"
    /\ mode = ""
    /\ version = ""
    /\ always_run_step = FALSE
    /\ idx = 1
    /\ results = <<>>
    /\ received_sigterm = FALSE
    /\ curStep = NoStep
    /\ ret = FALSE
    /\ invocations = 0
    /\ called = <<>>
    /\ ran = <<>>
    /\ written = {}
    /\ failedAt = 0
    /\ cleanStart = FALSE
    /\ prev = NoPrev
    /\ earned = {}
    /\ lastRun = NoRun
    /\ histBefore = Absent
    /\ wroteMarker = FALSE
    /\ exited = <<>>

InitInt ==
    /\ intFlags = {}
    /\ ipc = "idle"
    /\ interrupt = NoInterrupt
    /\ resource_id = ""
    /\ icmd = 0
    /\ iret = FALSE
    /\ iinvocations = 0
    /\ iran = <<>>
    /\ iallPresent = FALSE
    /\ ilast = NoCmd
    /\ execCount = <<>>
    /\ okCount = <<>>

NoCleanup == [called |-> FALSE, pattern |-> <<>>, before |-> {}]

NoLogRun == [path |-> "", stamp |-> 0]

NoCall == [fn |-> ""]

StreamNames == {"stdout", "stderr"}

\* no process has been started
TeeIdle ==
    /\ proc = [exited |-> FALSE, returncode |-> <<>>]
    /\ streams = [s \in StreamNames |->
                     [open |-> FALSE, emitted |-> 0, read |-> 0, console |-> 0,
                      file |-> 0, reported |-> FALSE, pc |-> "idle"]]
    /\ waitTask = "idle"
    /\ teeState = [pc |-> "idle", returncode |-> <<>>, accept |-> <<>>, failed |-> FALSE]

\* the log directory is empty, no function has been called, no process runs
InitAux ==
    /\ logs = {}
    /\ logDirs = {}
    /\ clock = 0
    /\ lastCleanup = NoCleanup
    /\ lastLogRun = NoLogRun
    /\ call = NoCall
    /\ result = NoCall
    /\ TeeIdle

\* The package on the node and the state of its history file are inputs.
Init ==
    /\ config \in Packages
    /\ histFile \in {Absent, Corrupt}
    /\ InitStep
    /\ InitInt
    /\ InitAux

-----------------------------------------------------------------------------
(* main / agent_main in a step mode *)

\* History variable: whether the invocation that has just completed was an
\* `apply` without the always-run override that started with no step flags
\* and returned success, with its version and the steps it ran.
\* Of an `apply` in which a step failed it keeps the step's position, whether
\* the step's flag exists, and the override; of an uninstall-check that
\* returned success, its version and whether it started with flags; of an
\* invocation in a non-check mode, the steps that succeeded.
Completed ==
    LET succeeded == IF pc = "done" /\ mode \in StepModes /\ ~IsCheckMode(mode)
                     THEN {StepKey(Steps[i]) : i \in written} ELSE {}
        base == IF succeeded = {} THEN NoPrev
                ELSE [NoPrev EXCEPT !.mode = mode, !.version = version,
                                    !.succeeded = succeeded]
    IN IF pc = "done" /\ mode = "apply" /\ ~always_run_step /\ cleanStart /\ ~ret
       THEN [base EXCEPT !.apply_ok = TRUE, !.version = version, !.called = called]
       ELSE IF pc = "done" /\ mode = "apply" /\ ret /\ failedAt # 0
       THEN [base EXCEPT !.version = version, !.failedAt = failedAt,
                         !.flagged = make_flag_path(Steps[failedAt], config_data) \in flags,
                         !.always = always_run_step]
       ELSE IF pc = "done" /\ mode = "uninstall-check" /\ ~ret
       THEN [base EXCEPT !.version = version, !.uninstalled = TRUE,
                         !.hadFlags = ~cleanStart]
       ELSE base

\* main(mode, ...) with a valid step mode, up to the for loop of agent_main:
\* the START flag is set and the results list is empty.
Start(m, v, always) ==
    /\ pc \in {"idle", "done"}
    /\ invocations < MaxInvocations
    /\ Supported(m)
    /\ m \notin NON_STEP_MODES
    /\ pc' = "loop"
    /\ mode' = m
    /\ version' = v
    /\ always_run_step' = always
    /\ startFlag' = TRUE
    /\ idx' = 1
    /\ results' = <<>>
    /\ received_sigterm' = FALSE
    /\ curStep' = NoStep
    /\ ret' = FALSE
    /\ invocations' = invocations + 1
    /\ called' = <<>>
    /\ ran' = <<>>
    /\ written' = {}
    /\ failedAt' = 0
    /\ cleanStart' = (flags = {})
    /\ prev' = Completed
    /\ lastRun' = NoRun
    /\ UNCHANGED <<config, flags, histFile, backupFile, markers, checkResults, earned>>
    /\ histBefore' = histFile
    /\ wroteMarker' = FALSE
    /\ exited' = <<>>
    /\ UNCHANGED intVars
    /\ UNCHANGED auxVars

\* main(mode, ...) with a string that is no Mode: a warning, and False.
MainUnknownMode(m) ==
    /\ pc \in {"idle", "done"}
    /\ invocations < MaxInvocations
    /\ ~Supported(m)
    /\ pc' = "done"
    /\ mode' = m
    /\ ret' = FALSE
    /\ idx' = 1
    /\ results' = <<>>
    /\ received_sigterm' = FALSE
    /\ curStep' = NoStep
    /\ invocations' = invocations + 1
    /\ called' = <<>>
    /\ ran' = <<>>
    /\ written' = {}
    /\ failedAt' = 0
    /\ cleanStart' = (flags = {})
    /\ prev' = Completed
    /\ lastRun' = NoRun
    /\ UNCHANGED <<config, flags, startFlag, histFile, backupFile, markers,
                   checkResults, version, always_run_step, earned>>
    /\ histBefore' = histFile
    /\ wroteMarker' = FALSE
    /\ exited' = <<>>
    /\ UNCHANGED intVars
    /\ UNCHANGED auxVars

\* sigterm_handler
Sigterm ==
    /\ pc \in {"loop", "running"}
    /\ ~received_sigterm
    /\ received_sigterm' = TRUE
    /\ UNCHANGED <<config, flags, startFlag, histFile, backupFile, markers, checkResults,
                   pc, mode, version, always_run_step, idx, results, curStep, ret,
                   invocations, called, ran, written, failedAt, cleanStart, prev, earned, lastRun>>
    /\ UNCHANGED <<histBefore, wroteMarker, exited>>
    /\ UNCHANGED intVars
    /\ UNCHANGED auxVars

\* Faulty variant: the loop goes on while the step's process is running
InLoop_nowait == pc \in {"loop", "running"} /\ idx <= Len(Steps)

\* the for loop is at the top of an iteration: run_step has returned
InLoop == pc = "loop" /\ idx <= Len(Steps)

\* the history read of the upgrade modes (write=False) happens in every
\* iteration that got past the SIGTERM test
ReadHistory ==
    IF IsUpgradeMode(mode)
    THEN /\ histFile' = HistoryFileAfterLoad(histFile)
         /\ backupFile' = BackupAfterLoad(histFile, backupFile)
    ELSE UNCHANGED <<histFile, backupFile>>

\* arguments and version variables of the step after the history read
AnnotatedArgs(step) ==
    IF IsUpgradeMode(mode) THEN HistoryReadArgs(step, histFile, version)
    ELSE step.arguments

AnnotatedEnv ==
    IF IsUpgradeMode(mode) THEN HistoryReadEnv(histFile, version) ELSE NoVersions

\* the iteration runs the step: a check mode, or no flag that skips it
RunsStep(step) ==
    \/ IsCheckMode(mode)
    \/ ~check_flag_file(step, make_flag_path(step, config_data), always_run_step, mode)

\* An iteration that finds received_sigterm set: return True.
StepSigterm ==
    /\ InLoop
    /\ ObservesSigterm(received_sigterm)
    /\ pc' = "done"
    /\ ret' = sigterm_return
    /\ lastRun' = NoRun
    /\ UNCHANGED <<config, flags, startFlag, histFile, backupFile, markers, checkResults,
                   mode, version, always_run_step, idx, results,
                   received_sigterm, curStep,
                   invocations, called, ran, written, failedAt, cleanStart, prev, earned>>
    /\ UNCHANGED <<histBefore, wroteMarker, exited>>
    /\ UNCHANGED intVars
    /\ UNCHANGED auxVars

\* An iteration of a non-check mode whose flag makes it skip the step.
StepSkip ==
    /\ InLoop
    /\ ~ObservesSigterm(received_sigterm)
    /\ ~RunsStep(Steps[idx])
    /\ ReadHistory
    /\ idx' = idx + 1
    /\ lastRun' = NoRun
    /\ UNCHANGED <<config, flags, startFlag, markers, checkResults,
                   pc, mode, version, always_run_step, results,
                   received_sigterm, curStep, ret,
                   invocations, called, ran, written, failedAt, cleanStart, prev, earned>>
    /\ UNCHANGED <<histBefore, wroteMarker, exited>>
    /\ UNCHANGED intVars
    /\ UNCHANGED auxVars

\* An iteration whose run_step finds env: arguments without a variable in
\* os.environ (env: the names defined): run_step prints them and returns
\* True before any process is started.
StepEnvFail(env) ==
    /\ InLoop
    /\ ~ObservesSigterm(received_sigterm)
    /\ RunsStep(Steps[idx])
    /\ MissingEnv(AnnotatedArgs(Steps[idx]), env) # <<>>
    /\ ReadHistory
    /\ lastRun' = [idx |-> idx, environ |-> env \cap EnvRefs(AnnotatedArgs(Steps[idx])),
                   missing |-> MissingEnv(AnnotatedArgs(Steps[idx]), env),
                   started |-> FALSE, child |-> 0, killed |-> FALSE,
                   return_code |-> 0, failed |-> TRUE]
    /\ called' = Append(called, idx)
    /\ failedAt' = IF IsCheckMode(mode) THEN failedAt ELSE idx
    /\ IF AbortsOnFailure(mode, TRUE)
       THEN /\ pc' = "done"
            /\ ret' = TRUE
            /\ UNCHANGED <<idx, results>>
       ELSE /\ results' = IF IsCheckMode(mode) THEN Append(results, TRUE) ELSE results
            /\ idx' = idx + 1
            /\ UNCHANGED <<pc, ret>>
    /\ UNCHANGED <<config, flags, startFlag, markers, checkResults,
                   mode, version, always_run_step, received_sigterm, curStep,
                   invocations, ran, written, cleanStart, prev, earned>>
    /\ UNCHANGED <<histBefore, wroteMarker, exited>>
    /\ UNCHANGED intVars
    /\ UNCHANGED auxVars

\* An iteration that starts the step's process (run_step up to _run).
StepBegin(env) ==
    /\ InLoop
    /\ ~ObservesSigterm(received_sigterm)
    /\ RunsStep(Steps[idx])
    /\ MissingEnv(AnnotatedArgs(Steps[idx]), env) = <<>>
    /\ ReadHistory
    /\ pc' = "running"
    /\ curStep' = [path |-> Steps[idx].path,
                   args |-> ResolveArgs(AnnotatedArgs(Steps[idx]), env),
                   env |-> AnnotatedEnv,
                   environ |-> env \cap EnvRefs(AnnotatedArgs(Steps[idx]))]
    /\ called' = Append(called, idx)
    /\ ran' = Append(ran, idx)
    /\ lastRun' = NoRun
    /\ UNCHANGED <<config, flags, startFlag, markers, checkResults,
                   mode, version, always_run_step, idx, results,
                   received_sigterm, ret,
                   invocations, written, failedAt, cleanStart, prev, earned>>
    /\ UNCHANGED <<histBefore, wroteMarker, exited>>
    /\ UNCHANGED intVars
    /\ UNCHANGED auxVars

\* The step's process has ended: the rest of run_step and of the iteration.
StepEnd(o) ==
    /\ pc = "running"
    /\ LET step == Steps[idx]
           flag_file == make_flag_path(step, config_data)
           return_code == _run(o)
           failed == StepFailed(return_code, step)
       IN /\ lastRun' = [idx |-> idx, environ |-> curStep.environ,
                         missing |-> <<>>, started |-> TRUE,
                         child |-> o.child, killed |-> o.killed,
                         return_code |-> return_code, failed |-> failed]
          /\ curStep' = NoStep
          /\ IF IsCheckMode(mode)
             THEN /\ IF AbortsOnFailure(mode, failed)
                     THEN pc' = "done" /\ ret' = TRUE /\ UNCHANGED <<idx, results>>
                     ELSE /\ results' = Append(results, failed)
                          /\ idx' = idx + 1
                          /\ pc' = "loop"
                          /\ UNCHANGED ret
                  /\ UNCHANGED <<flags, written, failedAt, earned>>
             ELSE /\ flags' = FlagsAfterStep(failed, flag_file, flags)
                  /\ written' = IF flag_file \in flags' /\ (flag_file \notin flags \/ ~failed)
                                THEN written \cup {idx} ELSE written
                  /\ earned' = IF failed THEN earned ELSE earned \cup {flag_file}
                  /\ failedAt' = IF failed THEN idx ELSE failedAt
                  /\ IF AbortsOnFailure(mode, failed)
                     THEN pc' = "done" /\ ret' = TRUE /\ UNCHANGED idx
                     ELSE pc' = "loop" /\ idx' = idx + 1 /\ UNCHANGED ret
                  /\ UNCHANGED results
    /\ UNCHANGED <<config, startFlag, histFile, backupFile, markers, checkResults,
                   mode, version, always_run_step, received_sigterm,
                   invocations, called, ran, cleanStart, prev>>
    /\ exited' = Append(exited, idx)
    /\ UNCHANGED <<histBefore, wroteMarker>>
    /\ UNCHANGED intVars
    /\ UNCHANGED auxVars

\* After the loop: the check summary, the history update, the flag purge.
Finish ==
    /\ pc = "loop"
    /\ idx > Len(Steps)
    /\ pc' = "done"
    /\ lastRun' = NoRun
    /\ IF Summarizes(mode, Steps) /\ summarize_failure(results, Steps)
       THEN /\ checkResults' = summarize_check_file(results, Steps, mode, checkResults)
            /\ ret' = TRUE
            /\ UNCHANGED <<markers, histFile, backupFile, flags, earned>>
       ELSE /\ IF Summarizes(mode, Steps)
               THEN /\ checkResults' =
                         summarize_check_file(results, Steps, mode, checkResults)
                    /\ markers' = IF summarize_marker(results, Steps)
                                  THEN markers \cup {mode} ELSE markers
               ELSE UNCHANGED <<checkResults, markers>>
            /\ IF UpdatesHistory(mode)
               THEN /\ histFile' = HistoryWrite(histFile, mode, version, invocations)
                    /\ backupFile' = BackupAfterLoad(histFile, backupFile)
               ELSE UNCHANGED <<histFile, backupFile>>
            /\ IF UpdatesHistory(mode) /\ PurgesFlags(mode)
               THEN /\ flags' = remove_flags(config, config_data, flags)
                    /\ earned' = earned \
                          {f \in earned : \E s \in AllSteps(config) :
                               f = make_flag_path(s, config_data)}
               ELSE UNCHANGED <<flags, earned>>
            /\ ret' = FALSE
    /\ UNCHANGED <<config, startFlag, mode, version, always_run_step, idx,
                   results, received_sigterm, curStep,
                   invocations, called, ran, written, failedAt, cleanStart, prev>>
    /\ wroteMarker' = (Summarizes(mode, Steps) /\ summarize_marker(results, Steps))
    /\ UNCHANGED <<histBefore, exited>>
    /\ UNCHANGED intVars
    /\ UNCHANGED auxVars

Next ==
    \/ \E m \in StepModes \cup UnknownModes, v \in Versions, always \in BOOLEAN :
           Start(m, v, always)
    \/ \E m \in UnknownModes : MainUnknownMode(m)
    \/ Sigterm
    \/ StepSigterm
    \/ StepSkip
    \/ \E env \in SUBSET EnvNames : StepEnvFail(env)
    \/ \E env \in SUBSET EnvNames : StepBegin(env)
    \/ \E o \in Outcomes : StepEnd(o)
    \/ Finish

Spec == Init /\ [][Next]_vars

\* The flag store an earlier run of `apply` at version 1.0.0 has left: the
\* flags of the first steps of the list, in list order.
SeedVersion == "1.0.0"

SeedFlags ==
    {{make_flag_path(PackageFull["apply"][i],
                     [package_name |-> PackageName, package_version |-> SeedVersion]) :
         i \in 1..n} : n \in 0..Len(PackageFull["apply"])}

\* the modes of the invocations that follow
SeededModes == {"apply", "config", "uninstall", "uninstall-check"}

\* A node on which `apply` has run before.
InitSeeded ==
    /\ config = PackageFull
    /\ histFile = Absent
    /\ flags \in SeedFlags
    /\ earned = flags
    /\ startFlag = (flags # {})
    /\ backupFile = FALSE
    /\ markers = {}
    /\ checkResults = NoResults
    /\ pc = "idle"
    /\ mode = ""
    /\ version = ""
    /\ always_run_step = FALSE
    /\ idx = 1
    /\ results = <<>>
    /\ received_sigterm = FALSE
    /\ curStep = NoStep
    /\ ret = FALSE
    /\ invocations = 0
    /\ called = <<>>
    /\ ran = <<>>
    /\ written = {}
    /\ failedAt = 0
    /\ cleanStart = FALSE
    /\ prev = NoPrev
    /\ lastRun = NoRun
    /\ histBefore = Absent
    /\ wroteMarker = FALSE
    /\ exited = <<>>
    /\ InitInt
    /\ InitAux

NextSeeded ==
    \/ \E m \in SeededModes, v \in Versions, always \in BOOLEAN : Start(m, v, always)
    \/ Sigterm
    \/ StepSigterm
    \/ StepSkip
    \/ \E env \in SUBSET EnvNames : StepEnvFail(env)
    \/ \E env \in SUBSET EnvNames : StepBegin(env)
    \/ \E o \in Outcomes : StepEnd(o)
    \/ Finish

SpecSeeded == InitSeeded /\ [][NextSeeded]_vars

\* what the agent does by itself: an iteration up to the start of the
\* process, or the code after the loop
AgentStep ==
    \/ StepSigterm
    \/ StepSkip
    \/ \E env \in SUBSET EnvNames : StepEnvFail(env)
    \/ \E env \in SUBSET EnvNames : StepBegin(env)
    \/ Finish

\* the process of the step exits and closes its streams
ChildEnds == \E o \in Outcomes : StepEnd(o)

\* The agent's code runs on when it can (it never waits but in _run), and
\* every process that is started ends.
SpecLive == Init /\ [][Next]_vars /\ WF_vars(AgentStep) /\ WF_vars(ChildEnds)


-----------------------------------------------------------------------------
(* interrupts.py *)

MaxServices == 2

ServiceNames == {"containerd", "kubelet"}

\* the lists of services a ServiceRestart can carry, without repetition
ServiceLists ==
    {l \in UNION {[1..n -> ServiceNames] : n \in 0..MaxServices} :
        \A i, j \in DOMAIN l : i # j => l[i] # l[j]}

NodeRestart == [type |-> "node_restart", services |-> <<>>]
ServiceRestart(services) == [type |-> "service_restart", services |-> services]
RestartAllServices == [type |-> "restart_all_services", services |-> <<>>]
NoOp == [type |-> "no_op", services |-> <<>>]
ScriptInterrupt == [type |-> "script_interrupt", services |-> <<>>]

\* what inflate can return
Interrupts ==
    {NodeRestart, RestartAllServices, NoOp, ScriptInterrupt}
        \cup {ServiceRestart(l) : l \in ServiceLists}

\* interrupt_cmd, as a 0-based list: a function on 0..n-1
interrupt_cmd(int) ==
    IF int.type = "node_restart" THEN [i \in {0} |-> <<"reboot">>]
    ELSE IF int.type = "restart_all_services"
         THEN [i \in {0} |-> <<"service", "procps", "force-reload">>]
    ELSE IF int.type = "service_restart"
         THEN [i \in 0..Len(int.services) |->
                  IF i = 0 THEN <<"systemctl", "daemon-reload">>
                  ELSE <<"systemctl", "restart", int.services[i]>>]
    ELSE [i \in {} |-> <<>>]

NumCmds(int) == Cardinality(DOMAIN interrupt_cmd(int))

-----------------------------------------------------------------------------
(* do_interrupt *)

ResourceIds == {"scr-1_pkg_1.0.0", "scr-2_pkg_1.0.0"}

\* f"{interrupt_dir}/{interrupt_id}.complete", interrupt_dir ending in the
\* resource id and interrupt_id being f"{type}_{i}" (or the type, for NoOp)
_make_interrupt_flag(interrupt_dir, interrupt_id) == <<interrupt_dir, interrupt_id>>

\* Faulty variant: the id names the services of the interrupt too
interrupt_id_payload(int, i) == <<int.type, i, int.services>>

\* f"{interrupt._type()}_{i}"
interrupt_id(int, i) == <<int.type, i>>

CmdFlag(rid, int, i) == _make_interrupt_flag(rid, interrupt_id(int, i))

\* Faulty variant: the flag is named like the flag of a first command
NoOpFlag_indexed(rid) == _make_interrupt_flag(rid, <<"no_op", 0>>)

NoOpFlag(rid) == _make_interrupt_flag(rid, <<"no_op">>)

\* Faulty variant: the flag is not consulted
InterruptSkips_never(flag, flagset) == FALSE

\* the command is skipped when its flag exists
InterruptSkips(flag, flagset) == flag \in flagset

\* Faulty variant: SIGTERM keeps the flag of any interrupt type
KeepsFlag_anytype(type, return_code) == return_code = -SIGTERM

\* the special case: a reboot that ends with SIGTERM keeps its flag
KeepsFlag(type, return_code) == type = "node_restart" /\ return_code = -SIGTERM

\* Faulty variant: the flag of a failed command is not removed
FlagsAfterCmd_keep(type, return_code, flag, flagset) == flagset

\* the flags after the command returned
FlagsAfterCmd(type, return_code, flag, flagset) ==
    IF return_code # 0 /\ ~KeepsFlag(type, return_code)
    THEN flagset \ {flag} ELSE flagset

\* Faulty variant: a failed command does not end the loop
CmdAborts_never(type, return_code) == FALSE

\* Faulty variant: the reboot special case does not end the invocation with True
CmdAborts_reboot(type, return_code) ==
    return_code # 0 /\ ~(type = "node_restart" /\ return_code = -SIGTERM)

\* the command ends the invocation, which returns True
CmdAborts(type, return_code) == return_code # 0

\* History variables are kept per command of an interrupt under a resource id.
CmdKeys == {<<r, int, i>> : r \in ResourceIds, int \in Interrupts, i \in 0..MaxServices}

Key == <<resource_id, interrupt, icmd>>

\* one more for the key, where the keys are counted
Counted(count, k) ==
    IF k \in DOMAIN count THEN [count EXCEPT ![k] = @ + 1] ELSE count

InitInterrupt ==
    /\ config = PackageFull
    /\ histFile = Absent
    /\ InitStep
    /\ intFlags = {}
    /\ ipc = "idle"
    /\ interrupt = NoInterrupt
    /\ resource_id = ""
    /\ icmd = 0
    /\ iret = FALSE
    /\ iinvocations = 0
    /\ iran = <<>>
    /\ iallPresent = FALSE
    /\ ilast = NoCmd
    /\ execCount = [k \in CmdKeys |-> 0]
    /\ okCount = [k \in CmdKeys |-> 0]
    /\ InitAux

\* main(Mode.INTERRUPT, ...) -> do_interrupt with a NoOp interrupt
IntNoOp(rid) ==
    /\ ipc \in {"idle", "done"}
    /\ iinvocations < MaxInterrupts
    /\ interrupt' = NoOp
    /\ resource_id' = rid
    /\ intFlags' = intFlags \cup {NoOpFlag(rid)}
    /\ ipc' = "done"
    /\ iret' = FALSE
    /\ icmd' = 0
    /\ iinvocations' = iinvocations + 1
    /\ iran' = <<>>
    /\ iallPresent' = FALSE
    /\ ilast' = NoCmd
    /\ UNCHANGED <<execCount, okCount>>
    /\ UNCHANGED stepVars
    /\ UNCHANGED auxVars

\* main(Mode.INTERRUPT, ...) -> do_interrupt, up to the for loop
IntStart(int, rid) ==
    /\ ipc \in {"idle", "done"}
    /\ iinvocations < MaxInterrupts
    /\ int.type # "no_op"
    /\ interrupt' = int
    /\ resource_id' = rid
    /\ ipc' = "loop"
    /\ icmd' = 0
    /\ iret' = FALSE
    /\ iinvocations' = iinvocations + 1
    /\ iran' = <<>>
    /\ iallPresent' = (\A i \in DOMAIN interrupt_cmd(int) : CmdFlag(rid, int, i) \in intFlags)
    /\ ilast' = NoCmd
    /\ UNCHANGED <<intFlags, execCount, okCount>>
    /\ UNCHANGED stepVars
    /\ UNCHANGED auxVars

IntInLoop == ipc = "loop" /\ icmd < NumCmds(interrupt)

\* An iteration that finds the command's flag: continue
IntSkip ==
    /\ IntInLoop
    /\ InterruptSkips(CmdFlag(resource_id, interrupt, icmd), intFlags)
    /\ icmd' = icmd + 1
    /\ UNCHANGED <<intFlags, ipc, interrupt, resource_id, iret, iinvocations, iran,
                   iallPresent, ilast, execCount, okCount>>
    /\ UNCHANGED stepVars
    /\ UNCHANGED auxVars

\* An iteration that writes the flag and starts the command
IntBegin ==
    /\ IntInLoop
    /\ ~InterruptSkips(CmdFlag(resource_id, interrupt, icmd), intFlags)
    /\ intFlags' = intFlags \cup {CmdFlag(resource_id, interrupt, icmd)}
    /\ ipc' = "running"
    /\ iran' = Append(iran, icmd)
    /\ execCount' = Counted(execCount, Key)
    /\ UNCHANGED <<interrupt, resource_id, icmd, iret, iinvocations, iallPresent,
                   ilast, okCount>>
    /\ UNCHANGED stepVars
    /\ UNCHANGED auxVars

\* The command has ended: the rest of the iteration
IntEnd(o) ==
    /\ ipc = "running"
    /\ LET return_code == _run(o)
           flag == CmdFlag(resource_id, interrupt, icmd)
       IN /\ ilast' = [i |-> icmd, return_code |-> return_code]
          /\ intFlags' = FlagsAfterCmd(interrupt.type, return_code, flag, intFlags)
          /\ okCount' = IF return_code = 0 \/ (interrupt.type = "node_restart"
                                                 /\ return_code = -SIGTERM)
                        THEN Counted(okCount, Key) ELSE okCount
          /\ IF CmdAborts(interrupt.type, return_code)
             THEN ipc' = "done" /\ iret' = TRUE /\ UNCHANGED icmd
             ELSE ipc' = "loop" /\ icmd' = icmd + 1 /\ UNCHANGED iret
    /\ UNCHANGED <<interrupt, resource_id, iinvocations, iran, iallPresent, execCount>>
    /\ UNCHANGED stepVars
    /\ UNCHANGED auxVars

\* After the loop: return False
IntFinish ==
    /\ ipc = "loop"
    /\ icmd >= NumCmds(interrupt)
    /\ ipc' = "done"
    /\ iret' = FALSE
    /\ UNCHANGED <<intFlags, interrupt, resource_id, icmd, iinvocations, iran,
                   iallPresent, ilast, execCount, okCount>>
    /\ UNCHANGED stepVars
    /\ UNCHANGED auxVars

NextInterrupt ==
    \/ \E rid \in ResourceIds : IntNoOp(rid)
    \/ \E int \in Interrupts, rid \in ResourceIds : IntStart(int, rid)
    \/ IntSkip
    \/ IntBegin
    \/ \E o \in Outcomes : IntEnd(o)
    \/ IntFinish

SpecInterrupt == InitInterrupt /\ [][NextInterrupt]_vars

\* One interrupt, which is not a NoOp, is delivered again and again under one
\* resource identity.  The counters of the invocations and of the
\* executions are not kept (their functions are empty), the deliveries not
\* being bounded.
InitRetry ==
    /\ config = PackageFull
    /\ histFile = Absent
    /\ InitStep
    /\ intFlags = {}
    /\ ipc = "idle"
    /\ interrupt \in Interrupts \ {NoOp}
    /\ resource_id \in ResourceIds
    /\ icmd = 0
    /\ iret = FALSE
    /\ iinvocations = 0
    /\ iran = <<>>
    /\ iallPresent = FALSE
    /\ ilast = NoCmd
    /\ execCount = <<>>
    /\ okCount = <<>>
    /\ InitAux

\* main(Mode.INTERRUPT, ...) -> do_interrupt with the same interrupt_data and
\* SKYHOOK_RESOURCE_ID as before, up to the for loop
Redeliver ==
    /\ ipc \in {"idle", "done"}
    /\ ipc' = "loop"
    /\ icmd' = 0
    /\ iret' = FALSE
    /\ iran' = <<>>
    /\ iallPresent' = (\A i \in DOMAIN interrupt_cmd(interrupt) :
                          CmdFlag(resource_id, interrupt, i) \in intFlags)
    /\ ilast' = NoCmd
    /\ UNCHANGED <<intFlags, interrupt, resource_id, iinvocations, execCount, okCount>>
    /\ UNCHANGED stepVars
    /\ UNCHANGED auxVars

NextRetry ==
    \/ Redeliver
    \/ IntSkip
    \/ IntBegin
    \/ \E o \in Outcomes : IntEnd(o)
    \/ IntFinish

\* the code of do_interrupt between two commands
InterruptStep == IntSkip \/ IntBegin \/ IntFinish

\* the command that is running exits 0
CmdSucceeds == IntEnd([child |-> 0, killed |-> FALSE])

\* The interrupt is delivered again whenever the invocation has returned,
\* do_interrupt runs on when it can, and a command that is attempted again
\* and again exits 0 at some attempt.
SpecRetry ==
    /\ InitRetry
    /\ [][NextRetry]_vars
    /\ WF_vars(Redeliver)
    /\ WF_vars(InterruptStep)
    /\ SF_vars(CmdSucceeds)


-----------------------------------------------------------------------------
(* summarize_check_results, called with any list of results *)

MaxResults == 3

\* the lists of booleans a caller can hand over
ResultLists == UNION {[1..n -> BOOLEAN] : n \in 0..MaxResults}

\* the check modes for which step_data holds a non-empty list (the guard of
\* the call in agent_main)
SummarizedModes == {m \in CHECK_TO_APPLY : Len(config[m]) > 0}

InitSummarize ==
    /\ config \in Packages
    /\ histFile = Absent
    /\ InitStep
    /\ InitInt
    /\ InitAux

\* summarize_check_results(rs, step_data, m, root_mount): the check_results
\* file, the <m>_ALL_CHECKED file and the value returned
SummarizeCall(m, rs) ==
    /\ m \in SummarizedModes
    /\ pc' = "done"
    /\ mode' = m
    /\ results' = rs
    /\ checkResults' = summarize_check_file(rs, config[m], m, checkResults)
    /\ markers' = IF summarize_marker(rs, config[m]) THEN markers \cup {m} ELSE markers
    /\ wroteMarker' = summarize_marker(rs, config[m])
    /\ ret' = summarize_failure(rs, config[m])
    /\ UNCHANGED <<config, flags, startFlag, histFile, backupFile,
                   version, always_run_step, idx, received_sigterm, curStep,
                   invocations, called, ran, written, failedAt, cleanStart, prev,
                   earned, lastRun, histBefore, exited>>
    /\ UNCHANGED intVars
    /\ UNCHANGED auxVars

NextSummarize == \E m \in CHECK_TO_APPLY, rs \in ResultLists : SummarizeCall(m, rs)

SpecSummarize == InitSummarize /\ [][NextSummarize]_vars

-----------------------------------------------------------------------------
(* Log files: get_log_file, cleanup_old_logs and the log handling of run_step *)

MaxLogs == 7
MaxLogRuns == 2

\* log_files[5:] is removed
KeptLogs == 5

\* the root mount of the host, a directory of the working directory "/"
RootMount == "/root"

LogPaths == {"a", "b"}

\* a log file name, <root><log dir>/<package>/<version>/<path>-<stamp>.log,
\* with its modification time
LogFile(root, ver, path, stamp, mtime) ==
    [root |-> root, version |-> ver, path |-> path, stamp |-> stamp, mtime |-> mtime]

\* get_log_file: the name it returns, as a pattern when a component is "*"
\* (any_root: root_mount is "*"; any_stamp: timestamp is "*")
get_log_file(path, ver, root, any_root, stamp, any_stamp) ==
    [root |-> root, any_root |-> any_root, version |-> ver, path |-> path,
     stamp |-> stamp, any_stamp |-> any_stamp]

\* the directory of a name: os.path.dirname, taken literally
LogDirOf(pat) == <<IF pat.any_root THEN "*" ELSE pat.root, pat.version>>

\* get_log_file also creates the directory of the name it returns
get_log_file_dirs(pat, dirs) == dirs \cup {LogDirOf(pat)}

\* glob.glob(pattern): a relative pattern "*/..." is resolved against the
\* working directory (rel: the root mount is a directory of it)
Glob(pat, files, rel) ==
    {f \in files :
        /\ IF pat.any_root THEN rel ELSE f.root = pat.root
        /\ f.version = pat.version
        /\ f.path = pat.path
        /\ pat.any_stamp \/ f.stamp = pat.stamp}

\* Faulty variant: the files are ordered by the time stamp of their name
cleanup_old_logs_bystamp(pat, files, dirs, rel) ==
    IF LogDirOf(pat) \notin dirs THEN {files}
    ELSE LET M == Glob(pat, files, rel)
         IN {files \ D : D \in {X \in SUBSET M :
                /\ Cardinality(M \ X) = IF Cardinality(M) < KeptLogs
                                        THEN Cardinality(M) ELSE KeptLogs
                /\ \A k \in M \ X, d \in X : k.stamp >= d.stamp}}

\* cleanup_old_logs: the sets of files it can leave.  The matches are sorted
\* by modification time, newest first, and all but the first five removed;
\* among files of equal modification time the order is that of glob.
cleanup_old_logs(pat, files, dirs, rel) ==
    IF LogDirOf(pat) \notin dirs THEN {files}
    ELSE LET M == Glob(pat, files, rel)
         IN {files \ D : D \in {X \in SUBSET M :
                /\ Cardinality(M \ X) = IF Cardinality(M) < KeptLogs
                                        THEN Cardinality(M) ELSE KeptLogs
                /\ \A k \in M \ X, d \in X : k.mtime >= d.mtime}}

\* modification times of the logs found on the node: in the order of the
\* stamps, in the opposite order (older logs rewritten later), or equal in pairs
MtimeMaps ==
    {[s \in 1..MaxLogs |-> s], [s \in 1..MaxLogs |-> MaxLogs + 1 - s],
     [s \in 1..MaxLogs |-> (s + 1) \div 2]}

\* the glob patterns cleanup_old_logs is called with
LogPatterns ==
    UNION {{get_log_file(p, "1.0.0", RootMount, FALSE, 1, TRUE),
            get_log_file(p, "2.0.0", RootMount, FALSE, 1, TRUE),
            get_log_file(p, "1.0.0", RootMount, FALSE, 1, FALSE),
            get_log_file(p, "1.0.0", RootMount, TRUE, 1, FALSE)} : p \in LogPaths}

\* The node holds logs of earlier runs of step "a" and six logs of step "b",
\* all of version 1.0.0.
InitLogs ==
    /\ config = PackageFull
    /\ histFile = Absent
    /\ InitStep
    /\ InitInt
    /\ \E n \in 0..MaxLogs, mt \in MtimeMaps :
          logs = {LogFile(RootMount, "1.0.0", "a", st, mt[st]) : st \in 1..n}
                   \cup {LogFile(RootMount, "1.0.0", "b", st, st) : st \in 1..6}
    /\ logDirs = {<<RootMount, "1.0.0">>}
    /\ clock = MaxLogs
    /\ lastCleanup = NoCleanup
    /\ lastLogRun = NoLogRun
    /\ call = NoCall
    /\ result = NoCall
    /\ TeeIdle

\* cleanup_old_logs(pattern)
CleanupCall(pat, rel) ==
    /\ logs' \in cleanup_old_logs(pat, logs, logDirs, rel)
    /\ lastCleanup' = [called |-> TRUE, pattern |-> <<pat, rel, LogDirOf(pat) \in logDirs>>,
                       before |-> logs]
    /\ lastLogRun' = NoLogRun
    /\ UNCHANGED <<logDirs, clock, pureVars, teeVars, stepVars, intVars>>

\* run_step as far as the log directory goes, for a step whose process is
\* executed: sleep one second, name the log file after the time, let tee
\* write it while the process runs (d seconds), then call cleanup_old_logs
\* with get_log_file(step_path, copy_dir, config_data, "*"): "*" is the
\* root_mount argument and the time stamp is that of the moment of the call.
RunStepLogs(path, ver, d, rel) ==
    /\ clock < MaxLogs + 2 * MaxLogRuns
    /\ LET stamp == clock + 1
           log_file == get_log_file(path, ver, RootMount, FALSE, stamp, FALSE)
           written_logs == {f \in logs : ~(f.root = RootMount /\ f.version = ver
                                          /\ f.path = path /\ f.stamp = stamp)}
                             \cup {LogFile(RootMount, ver, path, stamp, stamp + d)}
           pat == get_log_file(path, ver, RootMount, TRUE, stamp + d, FALSE)
           dirs == get_log_file_dirs(pat, get_log_file_dirs(log_file, logDirs))
       IN /\ clock' = stamp + d
          /\ logDirs' = dirs
          /\ logs' \in cleanup_old_logs(pat, written_logs, dirs, rel)
          /\ lastCleanup' = [called |-> TRUE, pattern |-> <<pat, rel, TRUE>>,
                             before |-> written_logs]
          /\ lastLogRun' = [path |-> path, stamp |-> stamp]
    /\ UNCHANGED <<pureVars, teeVars, stepVars, intVars>>

NextLogs ==
    \/ \E pat \in LogPatterns, rel \in BOOLEAN : CleanupCall(pat, rel)
    \/ \E d \in {0, 1}, rel \in BOOLEAN : RunStepLogs("a", "1.0.0", d, rel)

SpecLogs == InitLogs /\ [][NextLogs]_vars

-----------------------------------------------------------------------------
(* make_flag_path, character by character.  A Python string is a sequence of
   one-character strings. *)

RECURSIVE ConcatAll(_)
\* "".join(parts)
ConcatAll(parts) ==
    IF parts = <<>> THEN <<>> ELSE Head(parts) \o ConcatAll(Tail(parts))

RECURSIVE JoinComma(_)
\* ", ".join(parts)
JoinComma(parts) ==
    IF parts = <<>> THEN <<>>
    ELSE IF Len(parts) = 1 THEN parts[1]
    ELSE parts[1] \o <<",", " ">> \o JoinComma(Tail(parts))

\* Faulty variant: the text of the string without quotes (str instead of repr)
py_repr_bare(str) == str

\* repr(str) of Python: double quotes when the string holds a single quote
\* and no double quote, single quotes otherwise; a backslash and the quote
\* in use are escaped with a backslash
py_repr(str) ==
    LET has(c) == \E i \in DOMAIN str : str[i] = c
        q == IF has("'") /\ ~has("\"") THEN "\"" ELSE "'"
        esc(c) == IF c = "\\" THEN <<"\\", "\\">>
                  ELSE IF c = q THEN <<"\\", q>>
                  ELSE <<c>>
    IN <<q>> \o ConcatAll([i \in DOMAIN str |-> esc(str[i])]) \o <<q>>

\* repr(n) for a small integer
py_repr_int(n) ==
    LET digit(d) == <<"0", "1", "2", "3", "4", "5", "6", "7", "8", "9">>[d + 1]
        abs == IF n < 0 THEN -n ELSE n
        digits == IF abs < 10 THEN <<digit(abs)>>
                  ELSE <<digit(abs \div 10), digit(abs % 10)>>
    IN IF n < 0 THEN <<"-">> \o digits ELSE digits

\* str(list): "[" + ", ".join(repr(x) for x in list) + "]"
py_str_list(reprs) == <<"[">> \o JoinComma(reprs) \o <<"]">>

\* the UTF-8 byte of a character
Ord(c) ==
    CASE c = "a" -> 97 [] c = "'" -> 39 [] c = "\"" -> 34 [] c = "\\" -> 92
      [] c = "," -> 44 [] c = " " -> 32 [] c = "[" -> 91 [] c = "]" -> 93
      [] c = "_" -> 95 [] c = "-" -> 45
      [] c = "0" -> 48 [] c = "1" -> 49 [] c = "2" -> 50 [] c = "3" -> 51
      [] c = "4" -> 52 [] c = "5" -> 53 [] c = "6" -> 54 [] c = "7" -> 55
      [] c = "8" -> 56 [] c = "9" -> 57

\* base64.b64encode: three bytes give four 6-bit digits (0..63, written here
\* as numbers); a last group of one or two bytes is filled up with "="
\* (written 64)
b64encode(bytes) ==
    LET n == Len(bytes)
        groups == (n + 2) \div 3
        byte(i) == IF i <= n THEN bytes[i] ELSE 0
        digit(g, k) ==
            LET b0 == byte(3 * g + 1)
                b1 == byte(3 * g + 2)
                b2 == byte(3 * g + 3)
            IN CASE k = 0 -> b0 \div 4
                 [] k = 1 -> (b0 % 4) * 16 + b1 \div 16
                 [] k = 2 -> IF 3 * g + 2 > n THEN 64 ELSE (b1 % 16) * 4 + b2 \div 64
                 [] k = 3 -> IF 3 * g + 3 > n THEN 64 ELSE b2 % 64
    IN [i \in 1..(4 * groups) |-> digit((i - 1) \div 4, (i - 1) % 4)]

\* base64 of f"{step.arguments}_{step.returncodes}"
marker_text(step) ==
    LET text == py_str_list([i \in DOMAIN step.arguments |-> py_repr(step.arguments[i])])
                  \o <<"_">>
                  \o py_str_list([i \in DOMAIN step.returncodes |->
                                     py_repr_int(step.returncodes[i])])
    IN b64encode([i \in DOMAIN text |-> Ord(text[i])])

\* f"{flag_dir}/{package_name}/{package_current_version}/{step.path}_{marker}"
make_flag_path_text(step, cd) ==
    [dir |-> <<cd.package_name, cd.package_version>>,
     file |-> <<step.path, "_", marker_text(step)>>]

\* argument strings: a, a', 'a, (a, a), a']_[0 and \'"
ArgStrings ==
    {<<"a">>, <<"a", "'", ",", " ", "'", "a">>, <<"a", ",", " ", "a">>,
     <<"a", "'", "]", "_", "[", "0">>, <<"\\", "'", "\"">>}

\* argument lists of at most two of these strings
ArgLists ==
    {<<>>} \cup {<<x>> : x \in ArgStrings} \cup {<<x, y>> : x, y \in ArgStrings}

ReturnCodeLists == {<<0>>, <<0, 1>>, <<1, 0>>, <<10>>}

\* steps with one path
FlagSteps ==
    [path : {"a"}, arguments : ArgLists, returncodes : ReturnCodeLists,
     idempotence : {Auto, Disabled}]

\* two steps of one package and version are given
InitFlagPath ==
    /\ config = PackageFull
    /\ histFile = Absent
    /\ InitStep
    /\ InitInt
    /\ logs = {}
    /\ logDirs = {}
    /\ clock = 0
    /\ lastCleanup = NoCleanup
    /\ lastLogRun = NoLogRun
    /\ TeeIdle
    /\ \E s1 \in FlagSteps, s2 \in FlagSteps :
          /\ s1.idempotence = Auto
          /\ call = [fn |-> "make_flag_path", steps |-> <<s1, s2>>]
    /\ result = NoCall

\* make_flag_path for both steps
FlagPathCall(ver) ==
    /\ call.fn = "make_flag_path"
    /\ result = NoCall
    /\ LET cd == [package_name |-> PackageName, package_version |-> ver]
       IN result' = [fn |-> "make_flag_path",
                     paths |-> <<make_flag_path_text(call.steps[1], cd),
                                 make_flag_path_text(call.steps[2], cd)>>]
    /\ UNCHANGED <<call, logVars, teeVars, stepVars, intVars>>

NextFlagPath == \E ver \in Versions : FlagPathCall(ver)

SpecFlagPath == InitFlagPath /\ [][NextFlagPath]_vars

-----------------------------------------------------------------------------
(* chroot_exec._get_process_env.  A dict is a function from the keys it holds
   to their values; the heap maps the names of the dict objects to them. *)

EnvKeys == {"A", "B"}

EnvValues == {"1", "2", "3"}

\* the dicts over these keys
EnvDicts == UNION {[ks -> EnvValues] : ks \in SUBSET EnvKeys}

\* d.update(e) on the heap: the object named target takes every item of the
\* object named source
dict_update(heap, target, source) ==
    LET d == heap[target]
        e == heap[source]
    IN [heap EXCEPT ![target] =
            [k \in DOMAIN d \cup DOMAIN e |-> IF k \in DOMAIN e THEN e[k] ELSE d[k]]]

\* Faulty variant: process_env is container_env itself, not a copy of it
get_process_env_inplace(heap) ==
    LET h2 == dict_update(heap, "container_env", "chroot_env")
        h3 == dict_update(h2, "container_env", "skyhook_env")
    IN [heap |-> h3, ret |-> "container_env"]

\* _get_process_env: a new dict with the items of container_env, updated
\* with chroot_env and then with skyhook_env
get_process_env(heap) ==
    LET h1 == [heap EXCEPT !["process_env"] = heap["container_env"]]
        h2 == dict_update(h1, "process_env", "chroot_env")
        h3 == dict_update(h2, "process_env", "skyhook_env")
    IN [heap |-> h3, ret |-> "process_env"]

\* the three dicts are given
InitEnv ==
    /\ config = PackageFull
    /\ histFile = Absent
    /\ InitStep
    /\ InitInt
    /\ logs = {}
    /\ logDirs = {}
    /\ clock = 0
    /\ lastCleanup = NoCleanup
    /\ lastLogRun = NoLogRun
    /\ TeeIdle
    /\ \E c \in EnvDicts, k \in EnvDicts, h \in EnvDicts :
          call = [fn |-> "_get_process_env",
                  heap |-> [container_env |-> c, skyhook_env |-> k,
                            chroot_env |-> h, process_env |-> <<>>]]
    /\ result = NoCall

\* process_env = _get_process_env(container_env, skyhook_env, chroot_env)
ProcessEnvCall ==
    /\ call.fn = "_get_process_env"
    /\ result = NoCall
    /\ LET r == get_process_env(call.heap)
       IN result' = [fn |-> "_get_process_env", heap |-> r.heap,
                     process_env |-> r.heap[r.ret]]
    /\ UNCHANGED <<call, logVars, teeVars, stepVars, intVars>>

NextEnv == ProcessEnvCall

SpecEnv == InitEnv /\ [][NextEnv]_vars

-----------------------------------------------------------------------------
(* tee and _stream_process: the child process p writes to its two pipes and
   exits while, on the event loop of the agent, one copy task per pipe and
   the task of p.wait() run interleaved.  Only "await stream.read(limit)"
   suspends a copy task, so what it does with one chunk is one step.  What
   is written and copied is counted in chunks, one chunk being what one read
   returns. *)

MaxChunks == 1

\* the copy task has ended: at end of stream, or after an error it reported
Ended == {"eof", "error"}

\* Faulty variant: gather joins the two copy tasks only
gather_done_nowait ==
    \A s \in StreamNames : streams[s].pc \in Ended

\* asyncio.gather returns when its three awaitables are done
gather_done ==
    /\ \A s \in StreamNames : streams[s].pc \in Ended
    /\ waitTask = "done"

\* create_subprocess_exec has returned and gather has started the tasks
InitTee ==
    /\ config = PackageFull
    /\ histFile = Absent
    /\ InitStep
    /\ InitInt
    /\ logs = {}
    /\ logDirs = {}
    /\ clock = 0
    /\ lastCleanup = NoCleanup
    /\ lastLogRun = NoLogRun
    /\ call = NoCall
    /\ result = NoCall
    /\ proc = [exited |-> FALSE, returncode |-> <<>>]
    /\ streams = [s \in StreamNames |->
                     [open |-> TRUE, emitted |-> 0, read |-> 0, console |-> 0,
                      file |-> 0, reported |-> FALSE, pc |-> "reading"]]
    /\ waitTask = "waiting"
    /\ \E acc \in {<<0>>, <<0, 1>>} :
          teeState = [pc |-> "gather", returncode |-> <<>>, accept |-> acc,
                      failed |-> FALSE]

\* the child writes a chunk to one of its pipes
ChildWrite(s) ==
    /\ ~proc.exited
    /\ streams[s].open
    /\ streams[s].emitted < MaxChunks
    /\ streams' = [streams EXCEPT ![s].emitted = @ + 1]
    /\ UNCHANGED <<proc, waitTask, teeState>>
    /\ UNCHANGED <<logVars, pureVars, stepVars, intVars>>

\* the child closes one of its pipes before it exits
ChildClose(s) ==
    /\ ~proc.exited
    /\ streams[s].open
    /\ streams' = [streams EXCEPT ![s].open = FALSE]
    /\ UNCHANGED <<proc, waitTask, teeState>>
    /\ UNCHANGED <<logVars, pureVars, stepVars, intVars>>

\* the child exits, which closes its pipes
ChildExit(o) ==
    /\ ~proc.exited
    /\ proc' = [exited |-> TRUE, returncode |-> <<tee(o)>>]
    /\ streams' = [s \in StreamNames |-> [streams[s] EXCEPT !.open = FALSE]]
    /\ UNCHANGED <<waitTask, teeState>>
    /\ UNCHANGED <<logVars, pureVars, stepVars, intVars>>

\* _stream_process: a read returns data, which is written to both sinks
CopyChunk(s) ==
    /\ teeState.pc = "gather"
    /\ streams[s].pc = "reading"
    /\ streams[s].read < streams[s].emitted
    /\ streams' = [streams EXCEPT ![s].read = @ + 1, ![s].console = @ + 1,
                                  ![s].file = @ + 1]
    /\ UNCHANGED <<proc, waitTask, teeState>>
    /\ UNCHANGED <<logVars, pureVars, stepVars, intVars>>

\* _stream_process: a read returns no data, the loop ends
CopyEOF(s) ==
    /\ teeState.pc = "gather"
    /\ streams[s].pc = "reading"
    /\ streams[s].read = streams[s].emitted
    /\ ~streams[s].open
    /\ streams' = [streams EXCEPT ![s].pc = "eof"]
    /\ UNCHANGED <<proc, waitTask, teeState>>
    /\ UNCHANGED <<logVars, pureVars, stepVars, intVars>>

\* _stream_process: the read raises.  The handler writes an error line to
\* the sinks and ends the loop (handled); if that write raises too, the
\* exception leaves the task and gather, and tee raises.
CopyReadFails(s, handled) ==
    /\ teeState.pc = "gather"
    /\ streams[s].pc = "reading"
    /\ streams' = [streams EXCEPT ![s].pc = IF handled THEN "error" ELSE "raised",
                                  ![s].reported = handled]
    /\ teeState' = IF handled THEN teeState ELSE [teeState EXCEPT !.pc = "raised"]
    /\ UNCHANGED <<proc, waitTask>>
    /\ UNCHANGED <<logVars, pureVars, stepVars, intVars>>

\* _stream_process: a read returns data and the write to the first sink
\* (console = FALSE) or to the second (console = TRUE) raises; the handler
\* as above
CopyWriteFails(s, console, handled) ==
    /\ teeState.pc = "gather"
    /\ streams[s].pc = "reading"
    /\ streams[s].read < streams[s].emitted
    /\ streams' = [streams EXCEPT ![s].read = @ + 1,
                                  ![s].console = IF console THEN @ + 1 ELSE @,
                                  ![s].pc = IF handled THEN "error" ELSE "raised",
                                  ![s].reported = handled]
    /\ teeState' = IF handled THEN teeState ELSE [teeState EXCEPT !.pc = "raised"]
    /\ UNCHANGED <<proc, waitTask>>
    /\ UNCHANGED <<logVars, pureVars, stepVars, intVars>>

\* p.wait() returns once the child has exited
WaitDone ==
    /\ teeState.pc = "gather"
    /\ waitTask = "waiting"
    /\ proc.exited
    /\ waitTask' = "done"
    /\ UNCHANGED <<proc, streams, teeState>>
    /\ UNCHANGED <<logVars, pureVars, stepVars, intVars>>

\* gather returns; tee returns CompletedProcess(cmd, p.returncode)
TeeReturn ==
    /\ teeState.pc = "gather"
    /\ gather_done
    /\ teeState' = [teeState EXCEPT !.pc = "returned", !.returncode = proc.returncode]
    /\ UNCHANGED <<proc, streams, waitTask>>
    /\ UNCHANGED <<logVars, pureVars, stepVars, intVars>>

\* run_step: the step has failed when the return code is not an accepted one
\* (None, the code of a process that has not exited, is not)
Classify ==
    /\ teeState.pc = "returned"
    /\ teeState' = [teeState EXCEPT
                       !.pc = "classified",
                       !.failed = \/ teeState.returncode = <<>>
                                  \/ \A i \in DOMAIN teeState.accept :
                                        teeState.accept[i] # teeState.returncode[1]]
    /\ UNCHANGED <<proc, streams, waitTask>>
    /\ UNCHANGED <<logVars, pureVars, stepVars, intVars>>

NextTee ==
    \/ \E s \in StreamNames : ChildWrite(s)
    \/ \E s \in StreamNames : ChildClose(s)
    \/ \E o \in Outcomes : ChildExit(o)
    \/ \E s \in StreamNames : CopyChunk(s)
    \/ \E s \in StreamNames : CopyEOF(s)
    \/ \E s \in StreamNames, handled \in BOOLEAN : CopyReadFails(s, handled)
    \/ \E s \in StreamNames, console \in BOOLEAN, handled \in BOOLEAN :
          CopyWriteFails(s, console, handled)
    \/ WaitDone
    \/ TeeReturn
    \/ Classify

SpecTee == InitTee /\ [][NextTee]_vars

-----------------------------------------------------------------------------
(* Properties of the step modes (checked under Spec) *)

IsAuto(k) == Steps[k].idempotence = Auto

Count(seq, x) == Cardinality({j \in DOMAIN seq : seq[j] = x})

\* this invocation is the second of two `apply` invocations of the same
\* version without the always-run override, the first of which started with
\* no flags and returned success
SecondApply ==
    /\ prev.apply_ok
    /\ pc \in {"loop", "running", "done"}
    /\ mode = "apply"
    /\ ~always_run_step
    /\ version = prev.version

\* C1: after an `apply` that started with no flags and returned success, a
\* second `apply` of the same package, version and step list without the
\* always-run override hands no Auto step to run_step, and over the two
\* invocations every Auto step is run at most once.
C1_ApplyIdempotent ==
    SecondApply =>
        /\ \A j \in DOMAIN called : ~IsAuto(called[j])
        /\ \A k \in DOMAIN Steps :
              IsAuto(k) => Count(prev.called, k) + Count(called, k) <= 1

C1_Witness ==
    /\ SecondApply
    /\ pc = "done"
    /\ ~ret
    /\ prev.called = <<1, 2, 3>>
    /\ called = <<3>>

\* C2: in a non-check mode, when run_step reports failure for step k the
\* invocation returns failure at once: step k gets no flag, no step after k
\* is run, and the flags this invocation wrote for earlier steps stay.
C2_FailureAborts ==
    failedAt # 0 =>
        /\ pc = "done"
        /\ ret
        /\ failedAt \notin written
        /\ \A j \in DOMAIN called : called[j] <= failedAt
        /\ \A k \in written : make_flag_path(Steps[k], config_data) \in flags

C2_Witness ==
    /\ failedAt = 2
    /\ written = {1}
    /\ pc = "done"
    /\ make_flag_path(Steps[2], config_data) \notin flags

\* C3: a step flag exists only if run_step reported success for a step with
\* that flag path in a non-check mode and no successful uninstall-check has
\* removed it since.
C3_FlagImpliesSuccess == flags \subseteq earned

C3_Witness ==
    /\ pc = "done"
    /\ mode = "uninstall-check"
    /\ ~ret
    /\ flags # {}

\* C4: a check mode that sees no termination signal hands every step of its
\* list to run_step exactly once, in order, whatever flags exist and whatever
\* earlier checks returned, and returns failure if a check failed.
C4_CheckRunsAll ==
    (pc = "done" /\ IsCheckMode(mode) /\ ~received_sigterm) =>
        /\ called = [i \in 1..Len(Steps) |-> i]
        /\ Len(results) = Len(Steps)
        /\ (AnyFailed(results) => ret)

C4_Witness ==
    /\ pc = "done"
    /\ mode = "apply-check"
    /\ ~received_sigterm
    /\ flags # {}
    /\ results = <<TRUE, FALSE>>
    /\ ret

\* the history file holds a record it did not hold before
HistoryWritten == histFile'.state = "ok" /\ histFile' # histFile

\* C5: a history entry is added, and the current version changed, only by an
\* invocation in apply-check, upgrade-check or uninstall-check that returns
\* success.
C5_HistoryOnlyOnCheckSuccess ==
    [][HistoryWritten => (mode \in HistoryModes /\ pc' = "done" /\ ~ret')]_vars

C5_Witness ==
    /\ pc = "done"
    /\ mode = "upgrade-check"
    /\ ~ret
    /\ histFile.state = "ok"
    /\ Len(histFile.history) = 1
    /\ histFile.current = version

\* C10: run_step returns failure if and only if the exit code of the step's
\* own process is not one of the step's accepted return codes.
C10_FailureIffCodeRejected ==
    (lastRun.started /\ ~lastRun.killed) =>
        (lastRun.failed <=>
            lastRun.child \notin RangeOf(Steps[lastRun.idx].returncodes))

\* C25: main called with a string that is no Mode returns success at once:
\* no step is run and no flag, history, marker, check result or START file is
\* created or changed.
C25_UnknownModeIsNoOp ==
    [][(mode' \notin Mode /\ invocations' = invocations + 1) =>
          /\ pc' = "done"
          /\ ~ret'
          /\ called' = <<>>
          /\ ran' = <<>>
          /\ <<flags, startFlag, histFile, backupFile, markers, checkResults>>' =
                 <<flags, startFlag, histFile, backupFile, markers, checkResults>>
          /\ intFlags' = intFlags
          /\ logs' = logs]_vars

C25_Witness ==
    /\ pc = "done"
    /\ mode \in UnknownModes
    /\ invocations = 2
    /\ ~ret
    /\ flags # {}
    /\ called = <<>>

\* C26: an invocation whose mode has no steps runs no step and returns
\* success; in a check mode it writes no check results and no marker.
C26_EmptyModeIsNoOp ==
    /\ []((pc = "done" /\ mode \in StepModes /\ Len(Steps) = 0) =>
             (~ret /\ called = <<>> /\ ~wroteMarker))
    /\ [][(pc = "loop" /\ Len(Steps) = 0) =>
             (pc' # "running" /\ checkResults' = checkResults /\ markers' = markers)]_vars

C26_Witness ==
    /\ pc = "done"
    /\ mode = "upgrade-check"
    /\ Len(Steps) = 0
    /\ ~ret
    /\ markers = {}
    /\ histFile.state = "ok"

\* the invocation ended because the loop found received_sigterm set
SigtermStopped ==
    /\ pc = "done"
    /\ mode \in StepModes
    /\ idx <= Len(Steps)
    /\ failedAt = 0

\* C28 as stated: the invocation that SIGTERM stops at a step boundary
\* reports a result that is no error and differs from that of a step failure.
C28_SigtermIsNotAnError == SigtermStopped => ~ret

\* C28, amended: the invocation that SIGTERM stops at a step boundary
\* returns True, the value it returns for a step failure.
C28_SigtermReportsFailure ==
    /\ SigtermStopped => ret
    /\ (pc = "done" /\ failedAt # 0) => ret

C28_Witness ==
    /\ SigtermStopped
    /\ received_sigterm
    /\ mode = "apply"
    /\ idx = 2
    /\ written = {1}
    /\ ret

\* C29: in one invocation the steps are started in the order of the list,
\* each at most once; a step is started only after the process of the step
\* started before it has exited and, in a non-check mode, after that step's
\* flag was written; at most one step process is running at any time.
C29_StepsAreSequential ==
    /\ \A i, j \in DOMAIN ran : i < j => ran[i] < ran[j]
    /\ Len(ran) - Len(exited) = (IF pc = "running" THEN 1 ELSE 0)
    /\ exited = SubSeq(ran, 1, Len(exited))
    /\ (mode \in StepModes /\ ~IsCheckMode(mode)) =>
           \A j \in 1..(Len(ran) - 1) :
               make_flag_path(Steps[ran[j]], config_data) \in flags

C29_Witness ==
    /\ pc = "running"
    /\ mode = "apply"
    /\ ran = <<1, 2, 3>>
    /\ exited = <<1, 2>>
    /\ written = {1, 2}

\* the flag paths of the steps the package configures, in any mode, at the
\* version of this invocation
PackageFlags == {make_flag_path(s, config_data) : s \in AllSteps(config)}

\* C11: an uninstall-check that returns success removes exactly the flags of
\* the steps the package configures in any mode, at the package's version,
\* and leaves every other flag; an uninstall-check that returns failure
\* removes no flag.
C11_UninstallCheckPurges ==
    [][(mode = "uninstall-check" /\ pc # "done" /\ pc' = "done") =>
          IF ret' THEN flags' = flags ELSE flags' = flags \ PackageFlags]_vars

C11_Witness ==
    /\ pc = "done"
    /\ mode = "uninstall-check"
    /\ ~ret
    /\ ~cleanStart
    /\ flags = {}

\* C12 as stated: the access that finds a history file that does not parse
\* leaves a backup and goes on with a record whose current-version is
\* "unknown" and whose history is empty (an upgrade step is given "unknown"
\* as the previous version; a write leaves one entry).
C12_CorruptHistoryRecovered ==
    [][(histFile.state = "corrupt" /\ histFile' # histFile) =>
          /\ backupFile'
          /\ histFile'.state # "corrupt"
          /\ (pc' = "running" => curStep'.env.PREVIOUS_VERSION = "unknown")
          /\ (histFile'.state = "ok" => Len(histFile'.history) = 1)]_vars

C14_SigtermStops ==
    [][(pc = "loop" /\ idx <= Len(Steps) /\ received_sigterm) =>
          /\ pc' = "done"
          /\ ret'
          /\ called' = called
          /\ ran' = ran
          /\ checkResults' = checkResults
          /\ markers' = markers
          /\ ~wroteMarker'
          /\ histFile' = histFile
          /\ flags' = flags]_vars

C14_Witness ==
    /\ pc = "done"
    /\ IsCheckMode(mode)
    /\ received_sigterm
    /\ ret
    /\ Len(Steps) = 2
    /\ idx = 2
    /\ called = <<1>>
    /\ ~wroteMarker

\* C15: check_flag_file returns true exactly when the flag file exists, the
\* always-run override is off, the mode is none of config, uninstall and
\* upgrade, and the step's idempotence is Auto.
C15_CheckFlagFile ==
    \A m \in StepModes, always \in BOOLEAN, v \in Versions, s \in AllSteps(config) :
        LET f == make_flag_path(s, [package_name |-> PackageName, package_version |-> v])
        IN check_flag_file(s, f, always, m) <=>
               /\ f \in flags
               /\ ~always
               /\ m \notin {"config", "uninstall", "upgrade"}
               /\ s.idempotence = Auto

C15_Witness ==
    /\ pc = "running"
    /\ mode = "apply"
    /\ ~always_run_step
    /\ idx = 3
    /\ called = <<3>>
    /\ make_flag_path(Steps[3], config_data) \in flags

\* C17: a check-mode invocation writes its ALL_CHECKED marker exactly when
\* its step list is not empty, every check step was run and none failed.
C17_MarkerIffAllPassed ==
    (pc = "done" /\ IsCheckMode(mode)) =>
        (wroteMarker <=>
            /\ Len(Steps) > 0
            /\ called = [i \in 1..Len(Steps) |-> i]
            /\ Len(results) = Len(Steps)
            /\ \A i \in DOMAIN results : ~results[i])

C17_Witness ==
    /\ pc = "done"
    /\ mode = "apply-check"
    /\ wroteMarker
    /\ mode \in markers
    /\ ran = <<1, 2>>
    /\ ~ret

\* the current-version of the history record an invocation found
VersionBefore == IF histBefore.state = "ok" THEN histBefore.current ELSE "unknown"

\* C19: in upgrade and upgrade-check, with a history file that is absent or
\* parses, a step is run with CURRENT_VERSION the package version and
\* PREVIOUS_VERSION the current-version found when the invocation started
\* ("unknown" without a file); an UpgradeStep gets these two, previous then
\* current, appended once to its arguments, a plain Step gets no argument.
C19_UpgradeVersions ==
    (pc = "running" /\ IsUpgradeMode(mode) /\ histBefore.state # "corrupt") =>
        /\ curStep.env = [PREVIOUS_VERSION |-> VersionBefore, CURRENT_VERSION |-> version]
        /\ IF Steps[idx].upgrade
           THEN curStep.args =
                    Steps[idx].arguments \o <<Lit(VersionBefore), Lit(version)>>
           ELSE Len(curStep.args) = Len(Steps[idx].arguments)

C19_Witness ==
    /\ pc = "running"
    /\ mode = "upgrade"
    /\ Steps[idx].upgrade
    /\ histBefore.state = "ok"
    /\ curStep.env = [PREVIOUS_VERSION |-> "1.0.0", CURRENT_VERSION |-> "2.0.0"]
    /\ curStep.args = <<Lit("1.0.0"), Lit("2.0.0")>>

\* the env: arguments of the last run_step call whose variable is not defined
AbsentArgs ==
    LET args == Steps[lastRun.idx].arguments
    IN {i \in DOMAIN args : args[i].env /\ args[i].text \notin lastRun.environ}

-----------------------------------------------------------------------------
(* Properties of the interrupt subsystem (checked under SpecInterrupt) *)

LastFlag == CmdFlag(resource_id, interrupt, ilast.i)

IsReboot15 == interrupt.type = "node_restart" /\ ilast.return_code = -SIGTERM

\* C6 as stated: each command of an interrupt is executed at most once under
\* a resource identity, over all invocations.
C6_ExecutedAtMostOnce == \A k \in CmdKeys : execCount[k] <= 1

\* C6, amended: under a resource identity each command of an interrupt is
\* executed at most once per invocation and at most once with its flag kept
\* (the flag then stays, so no later invocation executes it); and an
\* invocation that finds every command's flag present executes no command.
C6_CompletedAtMostOnce ==
    /\ \A k \in CmdKeys : okCount[k] <= 1
    /\ \A k \in CmdKeys : okCount[k] = 1 => CmdFlag(k[1], k[2], k[3]) \in intFlags
    /\ \A i \in 0..MaxServices : Count(iran, i) <= 1
    /\ iallPresent => iran = <<>>

C6_Witness ==
    /\ ipc = "done"
    /\ iran = <<1>>
    /\ interrupt = ServiceRestart(<<"containerd">>)
    /\ execCount[<<resource_id, interrupt, 1>>] = 2
    /\ okCount[<<resource_id, interrupt, 1>>] = 1
    /\ ~iret

\* C7: when a command exits non-zero (other than a NodeRestart command ending
\* with -15) its flag is removed, no later command is run, do_interrupt
\* returns failure, and the flags of the earlier commands remain.
C7_CommandFailure ==
    (ilast.i >= 0 /\ ilast.return_code # 0 /\ ~IsReboot15) =>
        /\ LastFlag \notin intFlags
        /\ ipc = "done"
        /\ iret
        /\ iran[Len(iran)] = ilast.i
        /\ \A i \in 0..(ilast.i - 1) : CmdFlag(resource_id, interrupt, i) \in intFlags

C7_Witness ==
    /\ interrupt.type = "service_restart"
    /\ ilast = [i |-> 1, return_code |-> 1]
    /\ iran = <<0, 1>>
    /\ ipc = "done"

\* C8: a command that ends with -15 keeps its flag if the interrupt is a
\* NodeRestart and has it removed for every other interrupt type.
C8_RebootKeepsFlag ==
    (ilast.i >= 0 /\ ilast.return_code = -SIGTERM) =>
        (LastFlag \in intFlags <=> interrupt.type = "node_restart")

C8_Witness ==
    /\ ilast = [i |-> 0, return_code |-> -SIGTERM]
    /\ interrupt = NodeRestart
    /\ LastFlag \in intFlags

\* C9 as stated: a NodeRestart whose command ends with -15 does not report
\* failure to its caller.
C9_RebootReportsSuccess ==
    (ilast.i >= 0 /\ IsReboot15 /\ ipc = "done") => ~iret

\* C9, amended: a NodeRestart whose command ends with -15 keeps its flag but
\* the invocation still returns failure; an invocation of NodeRestart returns
\* success only if its command exited 0 or was skipped because of the flag.
C9_RebootReportsFailure ==
    /\ (ilast.i >= 0 /\ IsReboot15) => (ipc = "done" /\ iret /\ LastFlag \in intFlags)
    /\ (interrupt = NodeRestart /\ ipc = "done" /\ ~iret) =>
           (iran = <<>> \/ ilast.return_code = 0)

C9_Witness ==
    /\ ilast.i = 0
    /\ IsReboot15
    /\ ipc = "done"
    /\ iret


\* C24: every invocation with a NoOp interrupt runs no command, writes the
\* one flag no_op.complete in the flag directory of the resource identity
\* and returns success.
C24_NoOpInterrupt ==
    /\ []((interrupt = NoOp /\ ipc = "done") =>
             /\ iran = <<>>
             /\ ~iret
             /\ <<resource_id, <<"no_op">>>> \in intFlags)
    /\ [][(interrupt' = NoOp /\ iinvocations' # iinvocations) =>
             /\ ipc' = "done"
             /\ intFlags' = intFlags \cup {<<resource_id', <<"no_op">>>>}
             /\ execCount' = execCount]_vars

C24_Witness ==
    /\ interrupt = NoOp
    /\ ipc = "done"
    /\ iinvocations = 2
    /\ ~iret
    /\ intFlags = {<<resource_id, <<"no_op">>>>}

\* the types of the interrupts
IntTypes == {int.type : int \in Interrupts}

\* C33: in every state, between and within invocations, the completion flags
\* of one interrupt type under one resource identity are those of a prefix
\* of the command indexes: with the flag of index j the flags of all
\* indexes below j exist.
C33_FlagsPrefixClosed ==
    \A rid \in ResourceIds, t \in IntTypes, j \in 0..MaxServices :
        <<rid, <<t, j>>>> \in intFlags =>
            \A i \in 0..(j - 1) : <<rid, <<t, i>>>> \in intFlags

C33_Witness ==
    /\ ipc = "running"
    /\ icmd = 2
    /\ iran = <<2>>
    /\ \A i \in 0..2 : <<resource_id, <<interrupt.type, i>>>> \in intFlags

\* an interrupt of the type of the current one, with as many commands but
\* other services, of which every command has completed under the current
\* resource identity
CompletedWithOtherPayload(other) ==
    /\ other.type = interrupt.type
    /\ other # interrupt
    /\ NumCmds(other) = NumCmds(interrupt)
    /\ \A i \in DOMAIN interrupt_cmd(other) : okCount[<<resource_id, other, i>>] >= 1

\* C40: whether a command is run depends on the flag named by the resource
\* identity, the interrupt type and the command index alone; so after an
\* interrupt has completed under a resource identity, an interrupt of the
\* same type and length with other services runs no command there and
\* returns success, whatever has completed under another resource identity.
C40_FlagIgnoresPayload ==
    /\ [](\A other \in Interrupts :
             CompletedWithOtherPayload(other) =>
                 /\ iran = <<>>
                 /\ (ipc = "done" => ~iret))
    /\ [][(IntInLoop /\ <<ipc, icmd>>' # <<ipc, icmd>>) =>
             (ipc' = "running" <=>
                 <<resource_id, <<interrupt.type, icmd>>>> \notin intFlags)]_vars

C40_Witness ==
    /\ ipc = "done"
    /\ interrupt = ServiceRestart(<<"kubelet">>)
    /\ CompletedWithOtherPayload(ServiceRestart(<<"containerd">>))
    /\ iran = <<>>
    /\ ~iret

-----------------------------------------------------------------------------
(* Properties of a re-delivered interrupt (checked under SpecRetry) *)

\* every command of the interrupt has its completion flag
AllFlags ==
    \A i \in DOMAIN interrupt_cmd(interrupt) :
        CmdFlag(resource_id, interrupt, i) \in intFlags

\* C34: of an interrupt delivered again and again under one resource
\* identity, each command exiting 0 at some attempt: the first command an
\* invocation runs is the first one without a completion flag; eventually
\* all completion flags are present, for good; and from then on each
\* invocation runs no command and returns success, again and again.
C34_RetryCompletes ==
    /\ [][(iran = <<>> /\ iran' # <<>>) =>
             /\ iran' = <<icmd>>
             /\ CmdFlag(resource_id, interrupt, icmd) \notin intFlags
             /\ \A i \in 0..(icmd - 1) :
                   CmdFlag(resource_id, interrupt, i) \in intFlags]_vars
    /\ <>[]AllFlags
    /\ [](iallPresent => (iran = <<>> /\ (ipc = "done" => ~iret)))
    /\ <>[](ipc \in {"loop", "done"} /\ iallPresent)
    /\ []<>(ipc = "done" /\ ~iret)

C34_Witness ==
    /\ ipc = "done"
    /\ interrupt = ServiceRestart(<<"containerd", "kubelet">>)
    /\ iallPresent
    /\ iran = <<>>
    /\ ~iret
    /\ AllFlags

-----------------------------------------------------------------------------
(* Properties of summarize_check_results (checked under SpecSummarize) *)

\* C16: summarize_check_results returns failure exactly when the number of
\* results differs from the number of steps of the mode or a result is a failure.
C16_SummaryFailure ==
    pc = "done" =>
        (ret <=> (Len(results) # Len(config[mode]) \/ \E i \in DOMAIN results : results[i]))

C16_Witness ==
    /\ pc = "done"
    /\ Len(config[mode]) = 2
    /\ results = <<FALSE>>
    /\ ret

\* the (step-path, result) pairs of a call
ResultTable(steps, rs) == [i \in DOMAIN steps \cap DOMAIN rs |-> <<steps[i].path, rs[i]>>]

\* C18 as stated: after every call the check_results file holds the table of
\* that call.
C18_AlwaysPersists ==
    pc = "done" =>
        checkResults = [mode |-> mode, table |-> ResultTable(config[mode], results)]

\* C18, amended: a call whose number of results equals the number of steps
\* writes the table of that call, whether or not a check failed; a call with
\* a different number of results leaves the check_results file as it was.
C18_PersistsWhenCounted ==
    [][IF Len(results') = Len(config[mode'])
       THEN checkResults' =
                [mode |-> mode', table |-> ResultTable(config[mode'], results')]
       ELSE checkResults' = checkResults]_vars

C18_Witness ==
    /\ pc = "done"
    /\ mode = "apply-check"
    /\ results = <<TRUE>>
    /\ ret
    /\ checkResults = [mode |-> "config-check", table |-> <<<<"c_check", FALSE>>>>]


-----------------------------------------------------------------------------
(* Properties of the log directory (checked under SpecLogs) *)

\* the logs of the step of the last run_step call
LogsOfLastRun ==
    {f \in logs : f.root = RootMount /\ f.version = "1.0.0" /\ f.path = lastLogRun.path}

\* C21 as stated: after a run_step call that executed the step's process at
\* most five log files exist for the step.
C21_AtMostFiveLogs ==
    lastLogRun.path # "" => Cardinality(LogsOfLastRun) <= 5

\* the files the last cleanup_old_logs call matched and those it deleted
Matched == Glob(lastCleanup.pattern[1], lastCleanup.before, lastCleanup.pattern[2])

Deleted == lastCleanup.before \ logs

\* C22: cleanup_old_logs deletes only files that match the pattern, leaves
\* five of them when more than five match, every file it leaves being at
\* least as recently modified as every file it deletes; it deletes nothing
\* when at most five files match or the pattern's directory does not exist.
C22_CleanupKeepsNewestFive ==
    lastCleanup.called =>
        /\ logs \subseteq lastCleanup.before
        /\ Deleted \subseteq Matched
        /\ \A k \in Matched \ Deleted, d \in Deleted : k.mtime >= d.mtime
        /\ IF Cardinality(Matched) > 5 /\ lastCleanup.pattern[3]
           THEN Cardinality(Matched \ Deleted) = 5
           ELSE Deleted = {}

C22_Witness ==
    /\ lastCleanup.called
    /\ lastLogRun = NoLogRun
    /\ Cardinality(Matched) = 7
    /\ Cardinality(Deleted) = 2
    /\ \E k \in Matched \ Deleted, d \in Deleted : k.stamp < d.stamp


-----------------------------------------------------------------------------
(* Properties of make_flag_path (checked under SpecFlagPath) *)

\* C23: two steps of one package, version and path get the same flag path
\* exactly when their arguments and their accepted return codes are equal;
\* nothing else of the step enters the path.
C23_FlagPathInjective ==
    result.fn = "make_flag_path" =>
        (result.paths[1] = result.paths[2] <=>
            /\ call.steps[1].arguments = call.steps[2].arguments
            /\ call.steps[1].returncodes = call.steps[2].returncodes)

C23_Witness ==
    /\ result.fn = "make_flag_path"
    /\ call.steps[1].arguments = <<<<"a", ",", " ", "a">>>>
    /\ call.steps[2].arguments = <<<<"a">>, <<"a">>>>
    /\ call.steps[1].returncodes = call.steps[2].returncodes
    /\ result.paths[1] # result.paths[2]


-----------------------------------------------------------------------------
(* Properties of _get_process_env (checked under SpecEnv) *)

\* C27: the composed environment holds, for every key, the value of the step
\* overrides (skyhook_env) if they have the key, else that of the post-boundary
\* environment (chroot_env) if it has the key, else that of the pre-boundary
\* environment (container_env); its keys are the union of the three key sets;
\* and the three given dicts are as they were before the call.
C27_EnvPrecedence ==
    result.fn = "_get_process_env" =>
        LET c == call.heap["container_env"]
            k == call.heap["skyhook_env"]
            h == call.heap["chroot_env"]
            e == result.process_env
        IN /\ DOMAIN e = DOMAIN c \cup DOMAIN k \cup DOMAIN h
           /\ \A key \in DOMAIN e :
                 e[key] = IF key \in DOMAIN k THEN k[key]
                          ELSE IF key \in DOMAIN h THEN h[key]
                          ELSE c[key]
           /\ result.heap["container_env"] = c
           /\ result.heap["skyhook_env"] = k
           /\ result.heap["chroot_env"] = h

C27_Witness ==
    /\ result.fn = "_get_process_env"
    /\ call.heap["container_env"] = [key \in {"A"} |-> "1"]
    /\ call.heap["chroot_env"] = [key \in {"A", "B"} |-> "2"]
    /\ call.heap["skyhook_env"] = [key \in {"A"} |-> "3"]
    /\ result.process_env = [key \in {"A", "B"} |-> IF key = "A" THEN "3" ELSE "2"]


-----------------------------------------------------------------------------
(* Properties of tee (checked under SpecTee) *)

\* tee has returned to run_step
TeeReturned == teeState.pc \in {"returned", "classified"}

\* C30: when tee has returned the exit code, the child has exited and both
\* copy tasks have reached end of stream, every chunk read having been
\* written to both sinks.
C30_JoinedAtEndOfStream ==
    TeeReturned =>
        /\ proc.exited
        /\ \A s \in StreamNames :
              /\ streams[s].pc = "eof"
              /\ streams[s].console = streams[s].read
              /\ streams[s].file = streams[s].read

\* C30, amended: when tee has returned, the child has exited, the code
\* returned is its exit code, and both copy tasks have ended: at end of
\* stream, with everything the child wrote copied to both sinks, or at an
\* error of a read or a write, which is reported in the sinks.
C30_JoinedWhenEnded ==
    TeeReturned =>
        /\ proc.exited
        /\ waitTask = "done"
        /\ teeState.returncode = proc.returncode
        /\ \A s \in StreamNames :
              /\ streams[s].pc \in Ended
              /\ streams[s].pc = "eof" =>
                    /\ streams[s].read = streams[s].emitted
                    /\ streams[s].console = streams[s].read
                    /\ streams[s].file = streams[s].read
              /\ streams[s].pc = "error" => streams[s].reported

C30_Witness ==
    /\ teeState.pc = "classified"
    /\ streams["stdout"].pc = "eof"
    /\ streams["stdout"].file = MaxChunks
    /\ streams["stderr"].pc = "error"
    /\ streams["stderr"].read < streams["stderr"].emitted


-----------------------------------------------------------------------------
(* Termination (checked under SpecLive) *)

\* the invocation has started and has not returned
Invoked == pc \in {"loop", "running"}

\* C31: every process that is started ending, an invocation returns; it
\* starts at most one process per step of its list, in list order; and
\* while a process runs nothing happens but its end (there is no timeout):
\* no other step is started, no flag is written, the history is not touched.
C31_TerminatesIfChildrenDo ==
    /\ Invoked ~> (pc = "done")
    /\ [](/\ Len(ran) <= Len(Steps)
          /\ \A i, j \in DOMAIN ran : i < j => ran[i] < ran[j])
    /\ [][pc = "running" =>
             \/ exited' # exited
             \/ /\ pc' = "running"
                /\ UNCHANGED <<idx, called, ran, flags, histFile, markers,
                               checkResults, ret>>]_vars

C31_Witness ==
    /\ pc = "done"
    /\ mode = "apply"
    /\ ran = <<1, 2, 3>>
    /\ exited = <<1, 2, 3>>
    /\ ~ret


-----------------------------------------------------------------------------
(* Properties of invocations on a node with flags (checked under SpecSeeded) *)

\* this invocation is an `apply` without the always-run override that
\* follows an `apply` of the same version in which a step failed
Resumed ==
    /\ prev.failedAt # 0
    /\ pc \in {"loop", "running", "done"}
    /\ mode = "apply"
    /\ ~always_run_step
    /\ version = prev.version

\* the steps handed to run_step so far
Called == RangeOf(called)

\* C32 as stated: the `apply` that follows an `apply` that failed at step k
\* hands no Auto step before k to run_step, and it does not skip step k: once
\* the loop is past k, step k has been handed to run_step.
C32_ResumesAtFailedStep ==
    Resumed =>
        /\ \A j \in Called : IsAuto(j) => j >= prev.failedAt
        /\ idx > prev.failedAt => prev.failedAt \in Called

\* C32, amended: the `apply` that follows hands no Auto step before k to
\* run_step; it runs step k again unless k is an Auto step whose flag was
\* there when it failed, which happens only when the failed invocation ran
\* it under the always-run override (a failure leaves an existing flag):
\* then step k is skipped too.
C32_ResumesUnlessFlagged ==
    Resumed =>
        /\ \A j \in Called : IsAuto(j) => j >= prev.failedAt
        /\ idx > prev.failedAt =>
              (prev.failedAt \in Called <=> ~(IsAuto(prev.failedAt) /\ prev.flagged))
        /\ (IsAuto(prev.failedAt) /\ prev.flagged) => prev.always

C32_Witness ==
    /\ Resumed
    /\ pc = "done"
    /\ prev.failedAt = 2
    /\ prev.flagged
    /\ called = <<3>>
    /\ ~ret

\* this invocation is an `apply` that follows an uninstall-check of the same
\* version that returned success
Reinstalls ==
    /\ prev.uninstalled
    /\ pc \in {"loop", "running", "done"}
    /\ mode = "apply"
    /\ version = prev.version

\* C35: an `apply` that follows a successful uninstall-check of the same
\* package version skips no step because of a flag from before the
\* uninstall: every step the loop has got to was handed to run_step, unless
\* an earlier step of this very invocation wrote the flag that skips it.
C35_ReinstallRunsEveryStep ==
    Reinstalls =>
        \A j \in DOMAIN Steps :
            (j < idx \/ (j = idx /\ pc = "running")) =>
                \/ j \in Called
                \/ \E i \in written :
                       /\ i < j
                       /\ make_flag_path(Steps[i], config_data) =
                              make_flag_path(Steps[j], config_data)

C35_Witness ==
    /\ Reinstalls
    /\ prev.hadFlags
    /\ version = SeedVersion
    /\ pc = "done"
    /\ called = <<1, 2, 3>>
    /\ ~ret


-----------------------------------------------------------------------------
(* Properties of the flags across modes (checked under Spec)               *)

\* this invocation is in a mode that honours flags, without the override
HonoursFlags ==
    /\ mode \in {"apply", "post-interrupt"}
    /\ ~always_run_step
    /\ pc \in {"loop", "running", "done"}

\* C36: a flag does not tell the mode or the position of the step that wrote
\* it.  In `apply` and `post-interrupt` without the override, no Auto step is
\* handed to run_step whose path, arguments and return codes are those of a
\* step that succeeded in the invocation before, of the same package version
\* and of any non-check mode, or of a step that succeeded earlier in the list
\* of this invocation.
C36_FlagIgnoresModeAndPosition ==
    HonoursFlags =>
        /\ version = prev.version =>
               \A j \in Called :
                   IsAuto(j) => StepKey(Steps[j]) \notin prev.succeeded
        /\ \A i \in written, j \in Called :
               (i < j /\ IsAuto(j)) => StepKey(Steps[i]) # StepKey(Steps[j])

C36_Witness ==
    /\ HonoursFlags
    /\ prev.mode = "uninstall"
    /\ version = prev.version
    /\ mode = "apply"
    /\ pc = "done"
    /\ called = <<2, 3>>
    /\ ~ret

\* C37: a check mode neither consults nor creates step flags.  While an
\* invocation in a check mode is under way no step of it changes the set of
\* flags, except the end of an uninstall-check that returns success, which
\* removes the flags of the configured steps; and no iteration goes to the
\* next step without handing its step to run_step, whatever flags exist.
C37_CheckModeLeavesFlags ==
    [][(mode \in CHECK_TO_APPLY /\ pc \in {"loop", "running"}) =>
          /\ \/ flags' = flags
             \/ /\ mode = "uninstall-check"
                /\ pc' = "done"
                /\ ~ret'
                /\ flags' = flags \ PackageFlags
          /\ idx' # idx => idx \in RangeOf(called')]_vars

C37_Witness ==
    /\ pc = "done"
    /\ mode = "apply-check"
    /\ ~cleanStart
    /\ flags # {}
    /\ Len(Steps) > 0
    /\ Len(called) = Len(Steps)
    /\ ~ret

\* C38: the end of an apply-check, upgrade-check or uninstall-check whose
\* step list is empty: the invocation returns success without having run a
\* step, the history file holds one entry more, in front, with the package
\* version ("uninstalled" for uninstall-check) as its version and as the
\* current version, and an uninstall-check has removed the flags of all
\* configured steps.
C38_EmptyCheckStillRecords ==
    [][(pc = "loop" /\ mode \in HistoryModes /\ Len(Steps) = 0 /\ pc' = "done") =>
          LET ver == IF mode = "uninstall-check" THEN "uninstalled" ELSE version
              old == history_data(histFile).history
          IN /\ ~ret'
             /\ called' = <<>>
             /\ histFile'.state = "ok"
             /\ histFile'.current = ver
             /\ Len(histFile'.history) = Len(old) + 1
             /\ histFile'.history[1].version = ver
             /\ SubSeq(histFile'.history, 2, Len(old) + 1) = old
             /\ flags' = IF mode = "uninstall-check"
                         THEN flags \ PackageFlags ELSE flags]_vars

C38_Witness ==
    /\ pc = "done"
    /\ config = PackageSmall
    /\ mode = "uninstall-check"
    /\ Len(Steps) = 0
    /\ called = <<>>
    /\ ~ret
    /\ ~cleanStart
    /\ flags = {}
    /\ histFile.state = "ok"
    /\ histFile.current = "uninstalled"

\* the termination signal has arrived while the last step of the list was
\* running, or after the loop has ended
LateSigterm ==
    /\ received_sigterm
    /\ mode \in StepModes
    /\ \/ pc = "running" /\ idx = Len(Steps)
       \/ pc = "loop" /\ idx > Len(Steps)

\* C39 as stated: when the signal arrived that late and the last step
\* succeeded, the invocation returns success: a check mode has written the
\* ALL_CHECKED marker and, if it keeps the version history, the entry.
C39_LateSigtermSucceeds ==
    (/\ pc = "done"
     /\ received_sigterm
     /\ mode \in StepModes
     /\ Len(Steps) > 0
     /\ idx > Len(Steps)
     /\ mode \in CHECK_TO_APPLY => ~results[Len(Steps)]) =>
        /\ ~ret
        /\ mode \in CHECK_TO_APPLY => wroteMarker
        /\ mode \in HistoryModes =>
               /\ histFile.state = "ok"
               /\ histFile.current =
                      IF mode = "uninstall-check" THEN "uninstalled" ELSE version

\* C39, amended: a termination signal that arrives while the last step is running or
\* after the loop is never observed.  When the last step succeeds the loop
\* ends as without a signal: a non-check mode has written the step's flag, a
\* check mode has recorded the result.  The code after the loop then does
\* what it does without a signal: a check mode with steps writes the check
\* summary, and when no check failed the ALL_CHECKED marker; the modes that
\* keep the version history add their entry; the invocation returns success
\* unless a check failed.
C39_LateSigtermUnobserved ==
    [][LateSigterm =>
          /\ (pc = "running" /\ ~lastRun'.failed) =>
                 /\ pc' = "loop"
                 /\ idx' = Len(Steps) + 1
                 /\ IF mode \in CHECK_TO_APPLY
                    THEN results' = Append(results, FALSE) /\ flags' = flags
                    ELSE make_flag_path(Steps[idx], config_data) \in flags'
          /\ pc = "loop" =>
                 LET summary == mode \in CHECK_TO_APPLY /\ Len(Steps) > 0
                     failed == summary /\ AnyFailed(results)
                     ver == IF mode = "uninstall-check" THEN "uninstalled" ELSE version
                 IN /\ pc' = "done"
                    /\ ret' = failed
                    /\ summary =>
                           /\ checkResults'.mode = mode
                           /\ checkResults'.table =
                                  [i \in DOMAIN Steps |-> <<Steps[i].path, results[i]>>]
                           /\ ~failed => mode \in markers'
                    /\ (mode \in HistoryModes /\ ~failed) =>
                           /\ histFile'.state = "ok"
                           /\ histFile'.current = ver
                           /\ histFile'.history[1].version = ver
                           /\ Len(histFile'.history) =
                                  Len(history_data(histFile).history) + 1]_vars

C39_Witness ==
    /\ pc = "done"
    /\ received_sigterm
    /\ mode = "apply-check"
    /\ Len(Steps) > 0
    /\ idx > Len(Steps)
    /\ Len(exited) = Len(Steps)
    /\ ~ret
    /\ wroteMarker
    /\ histFile.state = "ok"
    /\ histFile.current = version

=============================================================================
